---- MODULE Spec2Model ----
(***************************************************************************)
(* A model of the decision engine of the pet-care backend:                 *)
(*   - the FAQ matcher chain (services/faq_service_optimized.py and        *)
(*     services/faq_service.py),                                           *)
(*   - the coarse dog detector (services/dog_detector.py),                 *)
(*   - the image upload handler (main.py, combined_upload_and_analyze).    *)
(*                                                                         *)
(* Scores and probabilities are exact rationals written as integers:       *)
(* similarity scores in multiples of 1/Unit, probabilities in percent.     *)
(* A text is the set of vocabulary words that occur in it as substrings    *)
(* (what `word in text.lower()` and ILIKE '%word%' test); an answer text   *)
(* also has its layout, the sequence of its line lengths.                  *)
(***************************************************************************)
EXTENDS Integers, Sequences, FiniteSets, TLC

VARIABLES
    client,         \* faq_service*.client: TRUE when the OpenAI client exists
    faqs,           \* rows of the faqs table / entries of the FAQ file, in insertion order
    faqCall,        \* the FAQ call under way: function, query, position, stages run
    faqResult,      \* what that call returned (or the exception it let escape)
    detCall,        \* the detector's predictions for the uploaded image, best first
    detResult,      \* what is_dog_image returned for them
    chatMessages,   \* rows of chat_messages of the pet, oldest first
    uploadedImages, \* rows of uploaded_images of the pet
    upload,         \* the upload request under way: position, decisions, response
    composed,       \* the last call of a message composer and the text it returned
    provider_calls, \* the calls of client.embeddings.create made so far
    faq_cache,      \* faq_service._faq_cache
    embeddings_cache, \* faq_service._embeddings_cache
    cache_file,     \* the content of faq_embeddings_cache.pkl
    loaders,        \* the threads calling faq_service, each with its locals
    llm,            \* the call of a language-model function and what it returned
    search,         \* a call of one of the similarity searches and its result list
    faqs_table,     \* the rows of the database table faqs
    migration,      \* a run of migrate_faqs: its arguments and its position
    store,          \* the SessionStore: its lock, its dict and the snapshot file
    callers         \* the threads calling the SessionStore, each with its locals

vars == <<client, faqs, faqCall, faqResult, detCall, detResult,
          chatMessages, uploadedImages, upload, composed,
          provider_calls, faq_cache, embeddings_cache, cache_file, loaders,
          llm, search, faqs_table, migration, store, callers>>

faqVars == <<client, faqs, faqCall, faqResult>>
detVars == <<detCall, detResult>>
upVars  == <<chatMessages, uploadedImages, upload>>
cacheVars == <<provider_calls, faq_cache, embeddings_cache, cache_file, loaders>>
migVars == <<faqs_table, migration>>
sessVars == <<store, callers>>
extVars == <<search, migVars, sessVars>>
svcVars == <<composed, cacheVars, llm, extVars>>

Min(a, b) == IF a <= b THEN a ELSE b
Max(a, b) == IF a >= b THEN a ELSE b

Take(s, k) == SubSeq(s, 1, Min(k, Len(s)))

(***************************************************************************)
(* Scores                                                                  *)
(***************************************************************************)

\* Bound: the longest query, in tokens.
MaxWords == 4

RECURSIVE Fact(_)
Fact(n) == IF n <= 1 THEN 1 ELSE n * Fact(n - 1)

\* The score 1.0.  Every quotient total / (2 * len(words)) of the keyword
\* matcher and every percentage is a whole number of 1/Unit.
Unit == 200 * Fact(MaxWords)

Pct(p) == p * (Unit \div 100)

HIGH_CONFIDENCE_THRESHOLD == Pct(85)
MEDIUM_CONFIDENCE_THRESHOLD == Pct(70)
LOW_CONFIDENCE_THRESHOLD == Pct(55)

\* The default top_k of get_faq_answer_optimized and get_faq_answer.
TopK == 3

\* A row whose embedding column is NULL has no similarity to any query.
NoEmbedding == -1

\* Cosine similarities a stored FAQ can have to a query: both sides of each cutoff.
VectorScores == {Pct(54), Pct(55), Pct(69), Pct(70), Pct(84), Pct(85)}

(***************************************************************************)
(* The knowledge base                                                      *)
(***************************************************************************)

StopWords ==
    {"the", "is", "are", "a", "an", "and", "or", "but", "in", "on", "at", "to",
     "for", "of", "with", "by", "what", "should", "can", "my", "i", "me", "how",
     "why", "when", "where", "do", "does", "did", "will", "would", "could",
     "may", "might"}

\* The tokens a query is made of: a stop word, a short word, two keywords.
Tokens == {"the", "ok", "dog", "food"}

Queries == UNION {[1..n -> Tokens] : n \in 0..MaxWords}

\* Answer layouts: one short line; one line of 600 characters; seven short lines.
ShortAnswer == <<40>>
WideAnswer == <<600>>
TallAnswer == <<10, 10, 10, 10, 10, 10, 10>>

FaqRow(i, q, a, t) == [id |-> i, question |-> q, answer |-> a, text |-> t]

\* The tables the model runs on.  Rows are unique by question.
FaqTables ==
    { <<>>,
      << FaqRow(1, {"dog"}, {"food"}, ShortAnswer) >>,
      << FaqRow(1, {"dog"}, {}, WideAnswer),
         FaqRow(2, {"dog", "food"}, {"dog"}, ShortAnswer) >>,
      << FaqRow(1, {}, {"dog", "food"}, TallAnswer),
         FaqRow(2, {"food"}, {"dog", "food"}, ShortAnswer) >>,
      << FaqRow(1, {}, {"food"}, ShortAnswer),
         FaqRow(2, {}, {}, WideAnswer) >> }

\* `word in text`: the word occurs in the lower-cased text.
Contains(text, w) == w \in text

(***************************************************************************)
(* sanitize_faq_answer                                                     *)
(***************************************************************************)

RECURSIVE SumSeq(_)
SumSeq(s) == IF s = <<>> THEN 0 ELSE s[1] + SumSeq(Tail(s))

\* len(answer): the characters of the lines and the newlines between them.
TextLen(t) == IF t = <<>> THEN 0 ELSE SumSeq(t) + Len(t) - 1

\* answer[:n] on a layout.
RECURSIVE CutText(_, _)
CutText(t, n) ==
    IF t = <<>> THEN <<>>
    ELSE IF t[1] >= n THEN <<n>>
    ELSE IF Len(t) = 1 THEN t
    ELSE <<t[1]>> \o CutText(Tail(t), n - t[1] - 1)

\* None is the empty layout; the empty string is one line of no characters.
NoAnswer == <<>>

\* Mutant: the answer is handed back as stored.
SanitizeFaqAnswerVerbatim(t) == t

\* sanitize_faq_answer on a layout: the first five lines, cut to 497
\* characters and "..." when longer than 500.
SanitizeFaqAnswer(t) ==
    IF TextLen(t) = 0 THEN t
    ELSE LET five == IF Len(t) > 5 THEN Take(t, 5) ELSE t IN
         IF TextLen(five) > 500
         THEN LET cut == CutText(five, 497) IN
              [cut EXCEPT ![Len(cut)] = @ + 3]
         ELSE five

(***************************************************************************)
(* Result lists                                                            *)
(***************************************************************************)

Hit(row, s) == [faq |-> row, sim |-> s]

\* list.sort(key=similarity, reverse=True): stable, equal scores keep their order.
InsertDesc(x, s) ==
    LET before == {i \in 1..Len(s) : s[i].sim >= x.sim}
        k == IF before = {} THEN 0 ELSE CHOOSE i \in before : \A j \in before : j <= i
    IN SubSeq(s, 1, k) \o <<x>> \o SubSeq(s, k + 1, Len(s))

RECURSIVE SortDesc(_)
SortDesc(s) ==
    IF s = <<>> THEN <<>>
    ELSE InsertDesc(s[Len(s)], SortDesc(SubSeq(s, 1, Len(s) - 1)))

\* The rows of a table at the given positions, in table order.
RowsAt(table, idx) ==
    LET pos == SelectSeq([i \in 1..Len(table) |-> i], LAMBDA i : i \in idx)
    IN [j \in 1..Len(pos) |-> table[pos[j]]]

SimAssignments(table) == [1..Len(table) -> VectorScores \cup {NoEmbedding}]

\* The rows with an embedding whose similarity reaches min_similarity, scored.
ScoredRows(table, sims, min_similarity) ==
    LET all == [i \in 1..Len(table) |-> Hit(table[i], sims[i])]
    IN SelectSeq(all, LAMBDA h : h.sim # NoEmbedding /\ h.sim >= min_similarity)

\* The orders in which the database can hand back n rows when the query
\* does not order them, or orders them by a key on which rows tie.
ScanOrders(n) == {f \in [1..n -> 1..n] : \A i, j \in 1..n : f[i] = f[j] => i = j}

\* The sequence s read in the order f.
InOrder(s, f) == [i \in 1..Len(s) |-> s[f[i]]]

\* The pgvector query: WHERE embedding IS NOT NULL AND similarity >= :min_similarity
\* ORDER BY distance LIMIT :top_k.
VectorQuery(table, sims, top_k, min_similarity) ==
    Take(SortDesc(ScoredRows(table, sims, min_similarity)), top_k)

\* The body of search_faqs_fallback: cosine similarity of every row with an
\* embedding, filtered, sorted descending, cut to top_k.
CosineFallback(table, sims, top_k, min_similarity) ==
    IF \A i \in 1..Len(table) : sims[i] = NoEmbedding THEN <<>>
    ELSE Take(SortDesc(ScoredRows(table, sims, min_similarity)), top_k)

(***************************************************************************)
(* search_faqs_keyword_fallback                                            *)
(***************************************************************************)

\* words: the tokens longer than 2 characters that are no stop words.
MeaningfulWords(query) == SelectSeq(query, LAMBDA w : Len(w) > 2 /\ w \notin StopWords)

\* Mutant: a word that occurs twice in the query counted once.
CountMatchesDistinct(words, text) ==
    Cardinality({w \in {words[i] : i \in 1..Len(words)} : Contains(text, w)})

\* sum(1 for word in words if word in text)
CountMatches(words, text) == Cardinality({i \in 1..Len(words) : Contains(text, words[i])})

\* Only the first 8 words make the SQL conditions.
MaxConditionWords == 8

AnyWordIn(words, text) == \E i \in 1..Len(words) : Contains(text, words[i])

\* Mutant: the boost added without the second cap.
QuestionSimilarityUncappedBoost(qm, am, n) ==
    LET similarity == Min(((qm * 2 + am) * Unit) \div Max(n * 2, 1), Pct(85))
    IN IF qm >= 2 THEN similarity + Pct(10) ELSE similarity

\* The score of a row found through its question: capped at 0.85, with a
\* boost of 0.1 when two or more words match the question.
QuestionSimilarity(qm, am, n) ==
    LET similarity == Min(((qm * 2 + am) * Unit) \div Max(n * 2, 1), Pct(85))
    IN IF qm >= 2 THEN Min(similarity + Pct(10), Pct(85)) ELSE similarity

\* The score of a row found through its answer: capped at 0.75.
AnswerSimilarity(qm, am, n) ==
    Min(((qm * 2 + am) * Unit) \div Max(n * 2, 1), Pct(75))

ScoreByQuestion(rows, words) ==
    [i \in 1..Len(rows) |->
        Hit(rows[i], QuestionSimilarity(CountMatches(words, rows[i].question),
                                        CountMatches(words, rows[i].answer),
                                        Len(words)))]

ScoreByAnswer(rows, words) ==
    [i \in 1..Len(rows) |->
        Hit(rows[i], AnswerSimilarity(CountMatches(words, rows[i].question),
                                      CountMatches(words, rows[i].answer),
                                      Len(words)))]

\* The second half of the matcher: rows whose answer holds a word.
AnswerMatches(table, words, top_k) ==
    LET conds == Take(words, MaxConditionWords)
        rows == Take(SelectSeq(table, LAMBDA r : AnyWordIn(conds, r.answer)), top_k * 2)
        results == SortDesc(ScoreByAnswer(rows, words))
    IN IF results # <<>> /\ results[1].sim >= Pct(30) THEN Take(results, top_k) ELSE <<>>

\* The try block of search_faqs_keyword_fallback.  raw: the positions of the
\* rows whose question holds the whole lower-cased query.
KeywordMatches(table, query, top_k, raw) ==
    LET words == MeaningfulWords(query) IN
    IF words = <<>>
    THEN LET rows == Take(RowsAt(table, raw), top_k)
         IN [i \in 1..Len(rows) |-> Hit(rows[i], Pct(70))]
    ELSE LET conds == Take(words, MaxConditionWords)
             rows == SelectSeq(table, LAMBDA r : AnyWordIn(conds, r.question))
             results == SortDesc(ScoreByQuestion(rows, words))
         IN IF rows # <<>> /\ results[1].sim >= Pct(30)
            THEN Take(results, top_k)
            ELSE AnswerMatches(table, words, top_k)

\* What a matcher hands back: its result list, or the exception it lets out.
Returned(res) == [res |-> res, exc |-> "none"]
Raised(kind) == [res |-> <<>>, exc |-> kind]

\* Mutant: the matcher without its except clause.
KeywordExceptMissing(r) == r

\* except Exception: return []
KeywordExcept(r) == IF r.exc # "none" THEN Returned(<<>>) ELSE r

\* out = "raise": the database query of the matcher raises.
SearchFaqsKeywordFallbackResult(table, query, top_k, raw, out, kind) ==
    KeywordExcept(IF out = "raise" THEN Raised(kind)
                  ELSE Returned(KeywordMatches(table, query, top_k, raw)))

(***************************************************************************)
(* get_faq_answer_optimized                                                *)
(***************************************************************************)

\* best_faq = None
NoFaq == FaqRow(0, {}, {}, NoAnswer)

FaqReturn(answer, faq, confidence, similarity) ==
    [answer |-> answer, faq |-> faq, confidence |-> confidence,
     similarity |-> similarity, exc |-> "none"]

\* return None, None, "none", similarity
NoMatch(similarity) == FaqReturn(NoAnswer, NoFaq, "none", similarity)

\* An exception leaves the function.
FaqEscaped(kind) ==
    [answer |-> NoAnswer, faq |-> NoFaq, confidence |-> "none",
     similarity |-> 0, exc |-> kind]

\* The call has not returned yet.
FaqPending == FaqReturn(NoAnswer, NoFaq, "pending", 0)

\* Mutant: the high cutoff compared with > instead of >=.
ConfidenceLevelStrict(similarity) ==
    IF similarity > HIGH_CONFIDENCE_THRESHOLD THEN "high"
    ELSE IF similarity >= MEDIUM_CONFIDENCE_THRESHOLD THEN "medium"
    ELSE IF similarity >= LOW_CONFIDENCE_THRESHOLD THEN "low"
    ELSE "none"

\* Step 5 of get_faq_answer_optimized: the confidence level of a similarity.
ConfidenceLevel(similarity) ==
    IF similarity >= HIGH_CONFIDENCE_THRESHOLD THEN "high"
    ELSE IF similarity >= MEDIUM_CONFIDENCE_THRESHOLD THEN "medium"
    ELSE IF similarity >= LOW_CONFIDENCE_THRESHOLD THEN "low"
    ELSE "none"

\* Steps 3 to 5: the answer for the best row of a vector or cosine search.
BestMatch(results) ==
    LET best == results[1]
        level == ConfidenceLevel(best.sim)
    IN IF level = "none" THEN NoMatch(best.sim)
       ELSE FaqReturn(SanitizeFaqAnswer(best.faq.text), best.faq, level, best.sim)

\* Mutant: a keyword match classified by its score like a vector match.
KeywordConfidenceTiered(similarity) == ConfidenceLevel(similarity)

\* The confidence reported for a keyword match.
KeywordConfidence(similarity) == "medium"

\* if results: ... return sanitized_answer, best_faq, "medium", similarity
KeywordMatch(results) ==
    FaqReturn(SanitizeFaqAnswer(results[1].faq.text), results[1].faq,
              KeywordConfidence(results[1].sim), results[1].sim)

\* The except clause of get_faq_answer_optimized, entered with exception
\* `kind`; retry is what the keyword matcher hands back when called again.
FaqExcept(kind, retry) ==
    IF kind = "quota" /\ retry.exc = "none" /\ retry.res # <<>>
    THEN KeywordMatch(retry.res)
    ELSE NoMatch(0)

\* What get_faq_answer_optimized returns after the keyword matcher handed
\* back k.  Only the call made when client is None is outside the try block.
AfterKeyword(site, k) ==
    IF k.exc # "none"
    THEN IF site = "no_client" THEN FaqEscaped(k.exc) ELSE FaqExcept(k.exc, k)
    ELSE IF k.res # <<>> THEN KeywordMatch(k.res)
    ELSE NoMatch(0)

Stage(name, outcome) == [stage |-> name, outcome |-> outcome]

OutcomeOf(failed, res) ==
    IF failed THEN "failed" ELSE IF res = <<>> THEN "empty" ELSE "hit"

FaqAt(pc) == faqCall.fn = "get_faq_answer_optimized" /\ faqCall.pc = pc

\* if client is None: keyword fallback; else the try block.
CheckClient ==
    /\ FaqAt("start")
    /\ faqCall' = IF client THEN [faqCall EXCEPT !.pc = "embed"]
                  ELSE [faqCall EXCEPT !.pc = "keyword", !.site = "no_client"]
    /\ UNCHANGED <<client, faqs, faqResult, detVars, upVars, svcVars>>

\* generate_embedding: the vector, or None when the provider fails.
GenerateEmbedding ==
    /\ FaqAt("embed")
    /\ \E out \in {"ok", "none"} :
         faqCall' = IF out = "ok" THEN [faqCall EXCEPT !.pc = "vector"]
                    ELSE [faqCall EXCEPT !.pc = "keyword", !.site = "no_embedding"]
    /\ UNCHANGED <<client, faqs, faqResult, detVars, upVars, svcVars>>

\* Where get_faq_answer_optimized goes with the list search_faqs_vector_db returned.
AfterSearch(call, name, failed, res) ==
    [call EXCEPT !.stages = Append(@, Stage(name, OutcomeOf(failed, res))),
                 !.results = res,
                 !.pc = IF res = <<>> THEN "keyword" ELSE "classify",
                 !.site = IF res = <<>> THEN "no_results" ELSE @]

\* Mutant: a failed pgvector query answered with [] instead of the fallback.
SearchFaqsVectorDbNoFallback ==
    /\ FaqAt("vector")
    /\ \/ \E sims \in SimAssignments(faqs), f \in ScanOrders(Len(faqs)) :
            faqCall' = AfterSearch(faqCall, "vector", FALSE,
                                   VectorQuery(InOrder(faqs, f), InOrder(sims, f),
                                               TopK, LOW_CONFIDENCE_THRESHOLD))
       \/ faqCall' = AfterSearch(faqCall, "vector", TRUE, <<>>)
    /\ UNCHANGED <<client, faqs, faqResult, detVars, upVars, svcVars>>

\* search_faqs_vector_db: the pgvector query; when it raises, the except
\* clause calls search_faqs_fallback.
SearchFaqsVectorDb ==
    /\ FaqAt("vector")
    /\ \/ \E sims \in SimAssignments(faqs), f \in ScanOrders(Len(faqs)) :
            faqCall' = AfterSearch(faqCall, "vector", FALSE,
                                   VectorQuery(InOrder(faqs, f), InOrder(sims, f),
                                               TopK, LOW_CONFIDENCE_THRESHOLD))
       \/ faqCall' = [faqCall EXCEPT !.stages = Append(@, Stage("vector", "failed")),
                                     !.pc = "in_memory"]
    /\ UNCHANGED <<client, faqs, faqResult, detVars, upVars, svcVars>>

\* search_faqs_fallback: cosine similarity in memory; [] when it raises.
SearchFaqsFallback ==
    /\ FaqAt("in_memory")
    /\ \/ \E sims \in SimAssignments(faqs), f \in ScanOrders(Len(faqs)) :
            faqCall' = AfterSearch(faqCall, "in_memory", FALSE,
                                   CosineFallback(InOrder(faqs, f), InOrder(sims, f),
                                                  TopK, LOW_CONFIDENCE_THRESHOLD))
       \/ faqCall' = AfterSearch(faqCall, "in_memory", TRUE, <<>>)
    /\ UNCHANGED <<client, faqs, faqResult, detVars, upVars, svcVars>>

\* The rows whose question can hold the whole query, when it has no keyword:
\* every row for the empty query, any rows otherwise.
RawHits(table, query) ==
    IF MeaningfulWords(query) # <<>> THEN {{}}
    ELSE IF query = <<>> THEN {1..Len(table)}
    ELSE SUBSET (1..Len(table))

\* The outcomes of the matcher's database queries: they succeed, or raise
\* an error whose text does or does not name a quota.
DbOutcomes == {<<"ok", "none">>, <<"raise", "quota">>, <<"raise", "other">>}

\* The call record after the keyword matcher handed back k.
AfterKeywordCall(call, k, failed) ==
    LET st == Stage("keyword", OutcomeOf(failed, k.res))
        \* the except clause calls the matcher once more on a quota error
        again == k.exc = "quota" /\ call.site # "no_client"
    IN [call EXCEPT !.pc = "done", !.results = k.res,
                    !.stages = @ \o (IF again THEN <<st, st>> ELSE <<st>>)]

\* search_faqs_keyword_fallback and the return that follows it.  The
\* matcher is the only stage that reads the words of the query: the model
\* draws them here.
SearchFaqsKeywordFallback ==
    /\ FaqAt("keyword")
    /\ \E query \in Queries, o \in DbOutcomes :
       \E raw \in RawHits(faqs, query) :
         /\ faqResult' = AfterKeyword(faqCall.site,
                SearchFaqsKeywordFallbackResult(faqs, query, TopK, raw, o[1], o[2]))
         /\ faqCall' = AfterKeywordCall([faqCall EXCEPT !.query = query],
                SearchFaqsKeywordFallbackResult(faqs, query, TopK, raw, o[1], o[2]),
                o[1] = "raise")
    /\ UNCHANGED <<client, faqs, detVars, upVars, svcVars>>

\* Steps 3 to 5 of get_faq_answer_optimized on a non-empty result list.
ClassifyBest ==
    /\ FaqAt("classify")
    /\ faqResult' = BestMatch(faqCall.results)
    /\ faqCall' = [faqCall EXCEPT !.pc = "done"]
    /\ UNCHANGED <<client, faqs, detVars, upVars, svcVars>>

(***************************************************************************)
(* faq_service.py: search_faqs and get_faq_answer                          *)
(***************************************************************************)

FaqService_HIGH_CONFIDENCE_THRESHOLD == Pct(85)
FaqService_MEDIUM_CONFIDENCE_THRESHOLD == Pct(70)
FaqService_LOW_CONFIDENCE_THRESHOLD == Pct(55)

\* search_faqs over the cached entries, the rows that were given an
\* embedding.  load: what load_or_generate_embeddings does; embed: what
\* generate_embedding does for the query.  Every failure gives [].
SearchFaqs(table, cl, sims, load, embed, top_k, min_similarity) ==
    IF ~cl THEN <<>>
    ELSE IF load # "ok" \/ \A i \in 1..Len(table) : sims[i] = NoEmbedding THEN <<>>
    ELSE IF embed # "ok" THEN <<>>
    ELSE Take(SortDesc(ScoredRows(table, sims, min_similarity)), top_k)

FaqServiceConfidenceLevel(similarity) ==
    IF similarity >= FaqService_HIGH_CONFIDENCE_THRESHOLD THEN "high"
    ELSE IF similarity >= FaqService_MEDIUM_CONFIDENCE_THRESHOLD THEN "medium"
    ELSE IF similarity >= FaqService_LOW_CONFIDENCE_THRESHOLD THEN "low"
    ELSE "none"

\* get_faq_answer on the list search_faqs returned.
FaqServiceAnswer(results) ==
    IF results = <<>> THEN NoMatch(0)
    ELSE LET best == results[1]
             level == FaqServiceConfidenceLevel(best.sim)
         IN IF level = "none" THEN NoMatch(best.sim)
            ELSE FaqReturn(best.faq.text, best.faq, level, best.sim)

GetFaqAnswer ==
    /\ faqCall.fn = "get_faq_answer" /\ faqCall.pc = "start"
    /\ \E sims \in SimAssignments(faqs) :
       \E load \in {"ok", "raise"}, embed \in {"ok", "none"} :
         LET res == SearchFaqs(faqs, client, sims, load, embed, TopK,
                               FaqService_LOW_CONFIDENCE_THRESHOLD)
         IN /\ faqResult' = FaqServiceAnswer(res)
            /\ faqCall' = [faqCall EXCEPT
                  !.pc = "done", !.results = res,
                  !.site = IF ~client THEN "no_client"
                           ELSE IF load # "ok" THEN "no_cache"
                           ELSE IF embed # "ok" THEN "no_embedding"
                           ELSE "try",
                  !.stages = IF client /\ load = "ok" /\ embed = "ok"
                             THEN <<Stage("cache", OutcomeOf(FALSE, res))>>
                             ELSE <<>>]
    /\ UNCHANGED <<client, faqs, detVars, upVars, svcVars>>

(***************************************************************************)
(* The coarse dog detector (services/dog_detector.py)                      *)
(***************************************************************************)

DOG_KEYWORDS ==
    {"dog", "dogs", "puppy", "puppies", "canine", "canines",
     "retriever", "retrievers", "terrier", "terriers", "poodle", "poodles",
     "beagle", "beagles", "husky", "huskies", "pug", "pugs", "spaniel", "spaniels",
     "mastiff", "mastiffs", "shepherd", "shepherds", "setter", "setters",
     "collie", "collies", "bulldog", "bulldogs", "chihuahua", "chihuahuas",
     "malamute", "malamutes", "samoyed", "samoyeds", "greyhound", "greyhounds",
     "whippet", "whippets", "boxer", "boxers", "rottweiler", "rottweilers",
     "doberman", "dobermans", "pinscher", "pinschers", "dalmatian", "dalmatians",
     "ridgeback", "ridgebacks", "newfoundland", "newfoundlands", "pointer", "pointers",
     "labrador", "labradors", "pomeranian", "pomeranians", "papillon", "papillons",
     "akita", "akitas", "saluki", "salukis", "borzoi", "borzois",
     "weimaraner", "weimaraners", "keeshond", "keeshonds", "vizsla", "vizslas",
     "schipperke", "schipperkes", "affenpinscher", "affenpinschers",
     "briard", "briards", "komondor", "komondors", "pekinese", "pekineses",
     "shihtzu", "shih-tzu", "schnauzer", "schnauzers", "great dane", "great danes",
     "corgi", "corgis", "dachshund", "dachshunds", "hound", "hounds",
     "wolfhound", "wolfhounds", "springer", "springers", "basset", "bassets",
     "bloodhound", "bloodhounds", "eskimo", "eskimos", "shiba", "shibas",
     "chow", "chows", "shar-pei", "shar pei", "basenji", "basenjis",
     "mexican hairless", "hairless", "xoloitzcuintli", "xolo"}

NON_DOG_ANIMALS ==
    {"goat", "goats", "sheep", "ram", "ewe", "lamb", "lambs",
     "cat", "cats", "kitten", "kittens", "feline", "felines",
     "cow", "cows", "bull", "bulls", "cattle", "calf", "calves",
     "horse", "horses", "pony", "ponies", "mare", "stallion",
     "pig", "pigs", "swine", "boar", "sow",
     "chicken", "chickens", "rooster", "hen",
     "duck", "ducks", "goose", "geese",
     "rabbit", "rabbits", "bunny", "bunnies",
     "hamster", "hamsters", "guinea pig", "guinea pigs",
     "bird", "birds", "parrot", "parrots"}

\* An ImageNet label: its name, the keywords of the two lists that occur in
\* the lower-cased name, and the reject-list keywords the name occurs in.
Label(name, contains, within) ==
    [name |-> name, contains |-> contains, within |-> within]

Ram             == Label("ram", {"ram"}, {"ram"})
EgyptianCat     == Label("Egyptian cat", {"cat"}, {})
BullMastiff     == Label("bull mastiff", {"bull", "mastiff"}, {})
GoldenRetriever == Label("golden retriever", {"retriever"}, {})
Teapot          == Label("teapot", {}, {})

Labels == {Ram, EgyptianCat, BullMastiff, GoldenRetriever, Teapot}

\* Bound: the predictions of the detector that carry weight, of its top 10;
\* the others are labels without a keyword, at a probability below every floor.
MaxPreds == 3

\* Probabilities in percent, around the floors 0.02, 0.03, 0.15, 0.25, 0.40.
Probs == {1, 2, 3, 15, 25, 40}

Pred(label, prob) == [label |-> label, prob |-> prob]

RECURSIVE SumProbs(_)
SumProbs(ps) == IF ps = <<>> THEN 0 ELSE ps[1].prob + SumProbs(Tail(ps))

\* The predictions that can follow ps in what torch.topk gives: another
\* label, at a probability no higher than the last, the sum at most 1.
NextPreds(ps) ==
    {Pred(l, p) : l \in Labels \ {ps[i].label : i \in 1..Len(ps)},
                  p \in {q \in Probs : /\ ps # <<>> => q <= ps[Len(ps)].prob
                                       /\ SumProbs(ps) + q <= 100}}

RECURSIVE PredictionsOfLen(_)
PredictionsOfLen(n) ==
    IF n = 0 THEN {<<>>}
    ELSE UNION {{Append(ps, x) : x \in NextPreds(ps)} : ps \in PredictionsOfLen(n - 1)}

Predictions == UNION {PredictionsOfLen(n) : n \in 1..MaxPreds}

\* any(k in name for k in DOG_KEYWORDS)
HasDogKeyword(label) == label.contains \cap DOG_KEYWORDS # {}

\* non_dog in name or name in non_dog, for some non_dog of the reject list
MatchesNonDog(label) ==
    \/ label.contains \cap NON_DOG_ANIMALS # {}
    \/ label.within \cap NON_DOG_ANIMALS # {}

\* "ram" in name
HasRam(label) == "ram" \in label.contains

\* The default threshold of is_dog_image.
Threshold == 25
\* The floor of the special check for "ram" on the top prediction.
Top1RamFloor == 10
\* The floors of the rejections among the top 10.
Top10RamFloor == 2
Top10NonDogFloor == 3
\* The probability at which a dog label among the top 10 counts as found.
DogFoundFloor == 15

DetReturn(is_dog, label, conf, method) ==
    [is_dog |-> is_dog, label |-> label, conf |-> conf, method |-> method]

\* A prediction of the top 10 that makes the first check of Method 2 return.
RejectedInTop10(p) ==
    \/ HasRam(p.label) /\ p.prob >= Top10RamFloor
    \/ MatchesNonDog(p.label) /\ p.prob >= Top10NonDogFloor

\* The return of the first check of Method 2 for the prediction p.
Top10Reject(p) ==
    IF HasRam(p.label) /\ p.prob >= Top10RamFloor
    THEN DetReturn(FALSE, p.label, p.prob, "ram_in_top10")
    ELSE DetReturn(FALSE, p.label, p.prob, "non_dog_in_top10")

NoLabel == Label("", {}, {})

\* The second loop of Method 2 over preds[i..]: dog_found, dog_confidence,
\* dog_label.
RECURSIVE DogSearch(_, _, _)
DogSearch(preds, i, acc) ==
    IF i > Len(preds) THEN acc
    ELSE LET p == preds[i]
             higher == HasDogKeyword(p.label) /\ p.prob > acc.conf
         IN DogSearch(preds, i + 1,
                [found |-> acc.found \/ (HasDogKeyword(p.label) /\ p.prob >= DogFoundFloor),
                 conf  |-> IF higher THEN p.prob ELSE acc.conf,
                 label |-> IF higher THEN p.label ELSE acc.label])

\* Mutant: a dog label that was found is accepted at any confidence.
AcceptDogWhenFound(dog_found, dog_confidence) == dog_found

\* if dog_found and dog_confidence >= 0.25
AcceptDog(dog_found, dog_confidence) == dog_found /\ dog_confidence >= 25

\* Method 2 of is_dog_image: the scan of the top 10 predictions.
Top10Scan(preds) ==
    LET rejected == {i \in 1..Len(preds) : RejectedInTop10(preds[i])}
        dog == DogSearch(preds, 1, [found |-> FALSE, conf |-> 0, label |-> NoLabel])
    IN IF rejected # {}
       THEN Top10Reject(preds[CHOOSE i \in rejected : \A j \in rejected : i <= j])
       ELSE IF AcceptDog(dog.found, dog.conf)
       THEN DetReturn(TRUE, dog.label, dog.conf, "top10_dog_match")
       ELSE DetReturn(FALSE, preds[1].label, preds[1].prob, "no_match")

\* Mutant: the dog keywords of the top prediction looked at before the
\* reject list.
IsDogImageDogFirst(preds, threshold) ==
    LET label == preds[1].label
        conf  == preds[1].prob
    IN IF conf >= threshold /\ HasDogKeyword(label)
       THEN DetReturn(TRUE, label, conf, "keyword_match")
       ELSE IF MatchesNonDog(label)
       THEN DetReturn(FALSE, label, conf, "non_dog_animal_detected")
       ELSE Top10Scan(preds)

\* is_dog_image on the predictions of the model, best first.
IsDogImage(preds, threshold) ==
    LET label == preds[1].label
        conf  == preds[1].prob
    IN IF MatchesNonDog(label)
       THEN DetReturn(FALSE, label, conf, "non_dog_animal_detected")
       ELSE IF HasRam(label) /\ conf >= Top1RamFloor
       THEN DetReturn(FALSE, label, conf, "ram_detected")
       ELSE IF conf >= threshold /\ HasDogKeyword(label)
       THEN DetReturn(TRUE, label, conf, "keyword_match")
       ELSE Top10Scan(preds)

\* is_dog_image did not return: opening the image or the model raised.
DetRaised == DetReturn(FALSE, NoLabel, 0, "raised")

UnknownLabel == Label("unknown", {}, {})

\* Mutant: the except clause of validate_dog_image answers with an accepted
\* image.
ValidateDogImageAcceptsOnError(det) ==
    IF det = DetRaised
    THEN [is_valid |-> TRUE, conf |-> 0, label |-> UnknownLabel]
    ELSE [is_valid |-> det.is_dog, conf |-> det.conf, label |-> det.label]

\* validate_dog_image on what is_dog_image did: (is_valid, confidence,
\* detected_label); the message is left out.
ValidateDogImage(det) ==
    IF det = DetRaised
    THEN [is_valid |-> FALSE, conf |-> 0, label |-> UnknownLabel]
    ELSE [is_valid |-> det.is_dog, conf |-> det.conf, label |-> det.label]

(***************************************************************************)
(* The response composer (services/response_messages.py)                   *)
(***************************************************************************)

LOW_CONFIDENCE_WARNING == "LOW_CONFIDENCE_WARNING"
MEDIUM_CONFIDENCE_GUIDANCE == "MEDIUM_CONFIDENCE_GUIDANCE"
SUCCESS_CONFIRMATION == "SUCCESS_CONFIRMATION"
NON_DOG_MESSAGE == "NON_DOG_MESSAGE"

\* The phrases _detect_message_type looks for that occur in a lower-cased
\* message text.  A text is named after the composer branch that returns it;
\* every other text of the model (a chat answer, a health summary, a user's
\* text) holds none of the phrases.
Phrases(text) ==
    CASE text \in {"low_full", "hairless_full"} -> {"couldn't confidently analyze"}
      [] text = "medium_full" -> {"can see something that might be"}
      [] text = "breed_success" -> {"detected successfully", "breed identified"}
      [] text = "non_dog_full" -> {"couldn't clearly recognize",
                                   "couldn't clearly recognize a dog"}
      [] OTHER -> {}

\* _detect_message_type
DetectMessageType(text) ==
    LET has(p) == p \in Phrases(text)
    IN IF has("couldn't confidently analyze") \/ has("couldn't clearly recognize")
       THEN LOW_CONFIDENCE_WARNING
       ELSE IF has("might need a clearer photo") \/ has("can see something that might be")
       THEN MEDIUM_CONFIDENCE_GUIDANCE
       ELSE IF has("detected successfully") \/ has("breed identified")
       THEN SUCCESS_CONFIRMATION
       ELSE IF has("couldn't clearly recognize a dog")
       THEN NON_DOG_MESSAGE
       ELSE LOW_CONFIDENCE_WARNING

\* The default lookback of _count_recent_message_type.
Lookback == 3

\* msg.get('sender') == 'ai' or 'ai' in str(msg.get('sender', '')).lower():
\* the assistant's rows are written with sender "ai_bot", a user's rows with
\* the digits of the user id.
IsAiSender(sender) == sender \in {"ai", "ai_bot"}

\* The last n elements of s.
LastN(s, n) == SubSeq(s, Max(1, Len(s) - n + 1), Len(s))

\* The loop of _count_recent_message_type over ai_messages[1..i], newest first.
RECURSIVE CountBackward(_, _, _)
CountBackward(ai_messages, i, message_type) ==
    IF i = 0 THEN 0
    ELSE IF DetectMessageType(ai_messages[i].text) = message_type
    THEN 1 + CountBackward(ai_messages, i - 1, message_type)
    ELSE 0

\* _count_recent_message_type
CountRecentMessageType(messages, message_type, lookback) ==
    LET ai_messages == LastN(SelectSeq(messages, LAMBDA m : IsAiSender(m.sender)), lookback)
    IN CountBackward(ai_messages, Len(ai_messages), message_type)

\* Mutant: a composer of three variants that has no minimal variant.
ThreeVariantsNoMinimal(repetition_count, full, short, minimal) ==
    IF repetition_count = 0 THEN full ELSE short

\* if repetition_count == 0 ... elif repetition_count == 1 ... else ...
ThreeVariants(repetition_count, full, short, minimal) ==
    IF repetition_count = 0 THEN full
    ELSE IF repetition_count = 1 THEN short
    ELSE minimal

\* if repetition_count == 0 ... else ...
TwoVariants(repetition_count, full, short) ==
    IF repetition_count = 0 THEN full ELSE short

\* get_dog_detection_message(dog_conf, recent_messages)
GetDogDetectionMessage(dog_conf, recent_messages) ==
    IF dog_conf < 30
    THEN ThreeVariants(CountRecentMessageType(recent_messages, LOW_CONFIDENCE_WARNING, Lookback),
                       "low_full", "low_short", "low_minimal")
    ELSE IF dog_conf < 60
    THEN TwoVariants(CountRecentMessageType(recent_messages, MEDIUM_CONFIDENCE_GUIDANCE, Lookback),
                     "medium_full", "medium_short")
    ELSE "can_see_dog"

\* get_breed_detection_message(breed, breed_conf, dog_conf, recent_messages);
\* the text does not depend on dog_conf, and on breed only where it names it.
GetBreedDetectionMessage(breed_conf, recent_messages) ==
    IF breed_conf >= 60 THEN "breed_success"
    ELSE IF breed_conf >= 30 THEN "breed_possible"
    ELSE ThreeVariants(CountRecentMessageType(recent_messages, LOW_CONFIDENCE_WARNING, Lookback),
                       "breed_low_full", "breed_low_short", "low_minimal")

\* get_hairless_breed_suspicion_message(recent_messages)
GetHairlessBreedSuspicionMessage(recent_messages) ==
    ThreeVariants(CountRecentMessageType(recent_messages, LOW_CONFIDENCE_WARNING, Lookback),
                  "hairless_full", "low_short", "low_minimal")

\* get_low_breed_confidence_message(breed_conf, recent_messages)
GetLowBreedConfidenceMessage(breed_conf, recent_messages) ==
    IF breed_conf < 30
    THEN ThreeVariants(CountRecentMessageType(recent_messages, LOW_CONFIDENCE_WARNING, Lookback),
                       "low_full", "low_short", "low_minimal")
    ELSE TwoVariants(CountRecentMessageType(recent_messages, MEDIUM_CONFIDENCE_GUIDANCE, Lookback),
                     "medium_full", "medium_short")

\* get_non_dog_message(recent_messages)
GetNonDogMessage(recent_messages) ==
    ThreeVariants(CountRecentMessageType(recent_messages, NON_DOG_MESSAGE, Lookback),
                  "non_dog_full", "non_dog_short", "non_dog_minimal")

\* recent_messages = recent_messages or [], for a caller that passes none.
NoRecentMessages == <<>>

(***************************************************************************)
(* The upload handler (main.py, combined_upload_and_analyze), from STEP 1  *)
(* on: the file has been read, verified and saved.                         *)
(***************************************************************************)

\* A breed name of the classifier: its name and the words of
\* hairless_breeds and "unknown" that occur in the lower-cased name.
Breed(name, contains) == [name |-> name, contains |-> contains]

hairless_breeds ==
    {"mexican hairless", "hairless", "xoloitzcuintli", "xolo", "peruvian hairless"}

Beagle          == Breed("beagle", {})
MexicanHairless == Breed("Mexican hairless", {"mexican hairless", "hairless"})
UnknownBreed    == Breed("Unknown Breed (Check dog_breeds_120.txt)", {"unknown"})

Breeds == {Beagle, MexicanHairless, UnknownBreed}

\* Confidences of the breed classifier, in percent, around the cutoff 0.50.
BreedConfs == {20, 49, 50, 90}

NoBreed == Breed("", {})

\* is_hairless_breed
IsHairlessBreed(breed) == breed # NoBreed /\ breed.contains \cap hairless_breeds # {}

\* The floor of the detector's confidence for a hairless breed.
HairlessDogConfFloor == 40

\* if breed_conf < 0.50
BreedConfTooLow(breed_conf) == breed_conf < 50

\* if is_hairless_breed and dog_conf < 0.4
HairlessSuspicion(breed, dog_conf) ==
    IsHairlessBreed(breed) /\ dog_conf < HairlessDogConfFloor

\* The breed a detector label stands for when the handler falls back to it.
LabelAsBreed(label) == Breed(label.name, {})

\* breed = detected_label if detected_label else "Unknown Breed";
\* breed_conf = dog_conf if dog_conf > 0 else 0.0
FallbackBreed(valid) ==
    [breed |-> IF valid.label.name # "" THEN LabelAsBreed(valid.label)
               ELSE Breed("Unknown Breed", {"unknown"}),
     conf  |-> IF valid.conf > 0 THEN valid.conf ELSE 0]

\* A row of chat_messages.
ChatMessage(sender, text) == [sender |-> sender, text |-> text]

\* create_chat_message for the user's photo, then
\* write_ai_message_to_database for the reply: each commits its own row, so
\* the rows written before the call that raises stay.
\* out = "ok" | "user_raises" | "ai_raises"
SaveMessages(rows, userText, aiText, out) ==
    IF out = "user_raises" THEN rows
    ELSE IF out = "ai_raises" THEN Append(rows, ChatMessage("user", userText))
    ELSE rows \o <<ChatMessage("user", userText), ChatMessage("ai_bot", aiText)>>

SaveOutcomes == {"ok", "user_raises", "ai_raises"}

\* The default limit of get_chat_messages.
GetChatMessagesLimit == 100

\* get_chat_messages(db, pet_id): the rows in the order of their timestamps,
\* which is the order they were written in, cut to the limit.
GetChatMessages(rows, limit) == SubSeq(rows, 1, Min(Len(rows), limit))

\* An entry of the "messages" field of a response.
ResponseMessage(sender, text) == [sender |-> sender, text |-> text]

\* messages_list of a rejection: the two rows the branch wrote.
WrittenMessages(userText, aiText) ==
    <<ResponseMessage("user", userText), ResponseMessage("ai", aiText)>>

\* messages_created of the success response: the user's row as it was
\* written, then the last assistant row among those get_chat_messages
\* hands back; the entries appended before a write raised stay.
MessagesCreated(rows, userText, out) ==
    LET saved_messages == GetChatMessages(rows, GetChatMessagesLimit)
        ai_messages == SelectSeq(saved_messages, LAMBDA m : m.sender = "ai_bot")
    IN IF out = "user_raises" THEN <<>>
       ELSE IF out = "ai_raises" \/ ai_messages = <<>>
       THEN <<ResponseMessage("user", userText)>>
       ELSE <<ResponseMessage("user", userText),
              ResponseMessage("ai", ai_messages[Len(ai_messages)].text)>>

NoValidation == [is_valid |-> FALSE, conf |-> 0, label |-> NoLabel]
NoPrediction == [breed |-> NoBreed, conf |-> 0]

\* A health analysis: the dict's overall_health and its observations.
HealthAnalysis(overall_health, observations) ==
    [overall_health |-> overall_health, observations |-> observations]

\* health_analysis = None, and the analysis that raised.
NoHealthAnalysis == HealthAnalysis("None", "None")
VisionRaised == HealthAnalysis("raised", "raised")

\* What analyze_health_with_vision returns: the vision model's reading or
\* the computer-vision reading of analyze_health_cv.
VisionResults ==
    {HealthAnalysis("Needs Attention", "eye issues detected"),
     HealthAnalysis("Good", "image quality analysis completed")}

\* The dict of the except branch.
FallbackHealthAnalysis == HealthAnalysis("Good", "Image analysis completed successfully")

\* A request at STEP 1; seq: its number among the uploads for the pet.
NewUpload ==
    [pc |-> "validate", seq |-> 1, valid |-> NoValidation,
     breedRun |-> FALSE, predicted |-> NoPrediction,
     breed |-> NoBreed, breed_conf |-> 0,
     decision |-> "none", status |-> "pending", http |-> 0,
     vision |-> NoHealthAnalysis, health_analysis |-> NoHealthAnalysis,
     full_summary |-> "", messages |-> <<>>]

\* JSONResponse(status_code=400, content={"status": "validation_failed", ...})
ValidationFailed(u) ==
    [u EXCEPT !.pc = "done", !.status = "validation_failed", !.http = 400]

\* except Exception at the end of the handler: HTTPException(status_code=500)
UploadFailed(u) == [u EXCEPT !.pc = "done", !.status = "error", !.http = 500]

\* STEP 1: validate_dog_image(dst); raised: the detector raised inside it.
ValidateImage ==
    /\ upload.pc = "validate"
    /\ \E raised \in BOOLEAN :
         LET det   == IF raised THEN DetRaised ELSE IsDogImage(detCall, Threshold)
             valid == ValidateDogImage(det)
         IN /\ detResult' = det
            /\ upload' = [upload EXCEPT
                  !.valid = valid,
                  !.pc = IF valid.is_valid THEN "breed" ELSE "reject",
                  !.decision = IF valid.is_valid THEN "none" ELSE "rejected_by_detector"]
    /\ UNCHANGED <<faqVars, detCall, chatMessages, uploadedImages, svcVars>>

\* if not is_valid_dog: the two chat rows and the 400 response.  The branch
\* is outside the inner try: an exception of a write ends in the last except.
RejectNonDog ==
    /\ upload.pc = "reject"
    /\ \E out \in SaveOutcomes :
         LET error_msg == GetDogDetectionMessage(upload.valid.conf, NoRecentMessages)
         IN /\ chatMessages' = SaveMessages(chatMessages, "uploaded_photo", error_msg, out)
            /\ upload' = IF out = "ok"
                          THEN [ValidationFailed(upload) EXCEPT
                                  !.messages = WrittenMessages("uploaded_photo", error_msg)]
                          ELSE UploadFailed(upload)
    /\ UNCHANGED <<faqVars, detVars, uploadedImages, svcVars>>

\* The except of the inner try: breed and breed_conf fall back to the
\* detector's label and confidence and the handler goes on to the analysis.
BreedExcept(u) ==
    [u EXCEPT !.pc = "analyze",
              !.breed = FallbackBreed(u.valid).breed,
              !.breed_conf = FallbackBreed(u.valid).conf]

\* The inner try after predict_breed returned (breed, breed_conf), up to the
\* chat writes of a rejection.
AfterPredictBreed(u, breed, breed_conf) ==
    LET v == [u EXCEPT !.breedRun = TRUE,
                       !.predicted = [breed |-> breed, conf |-> breed_conf],
                       !.breed = breed, !.breed_conf = breed_conf]
    IN IF HairlessSuspicion(breed, u.valid.conf)
       THEN [v EXCEPT !.pc = "reject_breed", !.decision = "rejected_hairless"]
       ELSE IF BreedConfTooLow(breed_conf)
       THEN [v EXCEPT !.pc = "reject_breed", !.decision = "rejected_low_confidence"]
       ELSE IF breed = NoBreed \/ "unknown" \in breed.contains
       THEN [v EXCEPT !.pc = "analyze", !.decision = "accepted",
                      !.breed = FallbackBreed(u.valid).breed,
                      !.breed_conf = FallbackBreed(u.valid).conf]
       ELSE [v EXCEPT !.pc = "analyze", !.decision = "accepted"]

\* breed, breed_conf = predict_breed(dst) and the checks on its result.
PredictBreed ==
    /\ upload.pc = "breed"
    /\ \/ \E breed \in Breeds, breed_conf \in BreedConfs :
            upload' = AfterPredictBreed(upload, breed, breed_conf)
       \/ upload' = BreedExcept([upload EXCEPT !.breedRun = TRUE, !.decision = "accepted"])
    /\ UNCHANGED <<faqVars, detVars, chatMessages, uploadedImages, svcVars>>

\* The chat rows and the 400 response of a rejection decided on the breed
\* classifier's result.  The writes are inside the inner try: an exception of
\* a write is caught by its except.
RejectBreed ==
    /\ upload.pc = "reject_breed"
    /\ \E out \in SaveOutcomes :
         LET error_msg == IF upload.decision = "rejected_hairless"
                          THEN GetHairlessBreedSuspicionMessage(NoRecentMessages)
                          ELSE GetLowBreedConfidenceMessage(upload.breed_conf, NoRecentMessages)
         IN /\ chatMessages' = SaveMessages(chatMessages, "uploaded_photo", error_msg, out)
            /\ upload' = IF out = "ok"
                          THEN [ValidationFailed(upload) EXCEPT
                                  !.messages = WrittenMessages("uploaded_photo", error_msg)]
                          ELSE BreedExcept(upload)
    /\ UNCHANGED <<faqVars, detVars, uploadedImages, svcVars>>

\* A call that raised instead of returning a text.
SummaryRaised == "raised"

\* generate_health_summary(health_analysis, breed=None, breed_conf=0.0)
\* called with the positional arguments args: more than three are a
\* TypeError; the text is told by the health status it reports.
GenerateHealthSummary(args) ==
    IF Len(args) > 3 THEN SummaryRaised
    ELSE CASE args[1].overall_health = "Good with Recommendations" -> "health_summary_fair"
           [] args[1].overall_health = "Needs Attention" -> "health_summary_needs_attention"
           [] OTHER -> "health_summary_good"

\* The try around analyze_health_with_vision and generate_health_summary,
\* its except and the inner try of the except; vision: what
\* analyze_health_with_vision returned, or VisionRaised.
AnalyzeHealth(vision, breed, breed_conf, dog_conf) ==
    LET first == IF vision = VisionRaised THEN SummaryRaised
                 ELSE GenerateHealthSummary(<<vision, breed, breed_conf, dog_conf>>)
        second == GenerateHealthSummary(<<FallbackHealthAnalysis, breed, breed_conf, dog_conf>>)
    IN IF first # SummaryRaised
       THEN [health_analysis |-> vision, health_summary |-> first]
       ELSE [health_analysis |-> FallbackHealthAnalysis,
             health_summary |-> IF second # SummaryRaised THEN second
                                ELSE GetBreedDetectionMessage(breed_conf, NoRecentMessages)]

\* A row of uploaded_images.
UploadedImage(breed, breed_confidence) ==
    [breed |-> breed, breed_confidence |-> breed_confidence]

\* The analysis, create_uploaded_image, the two chat rows and the success
\* response; a failed write is logged and the handler goes on.
AnalyzeAndStore ==
    /\ upload.pc = "analyze"
    /\ \E stored \in BOOLEAN :
         uploadedImages' = IF stored
                           THEN Append(uploadedImages,
                                       UploadedImage(upload.breed, upload.breed_conf))
                           ELSE uploadedImages
    /\ \E vision \in VisionResults \cup {VisionRaised}, out \in SaveOutcomes :
         LET health == AnalyzeHealth(vision, upload.breed, upload.breed_conf, upload.valid.conf)
         IN /\ chatMessages' = SaveMessages(chatMessages, "uploaded_dog_photo",
                                            health.health_summary, out)
            /\ upload' = [upload EXCEPT !.pc = "done", !.status = "success", !.http = 200,
                                        !.vision = vision,
                                        !.health_analysis = health.health_analysis,
                                        !.full_summary = health.health_summary,
                                        !.messages = MessagesCreated(chatMessages',
                                                         "uploaded_dog_photo", out)]
    /\ UNCHANGED <<faqVars, detVars, svcVars>>

(***************************************************************************)
(* The embedding cache (services/faq_service.py, generate_embedding and    *)
(* load_or_generate_embeddings), called from the threads of the server.    *)
(***************************************************************************)

\* The entries of the FAQ file, by their questions.
FaqFile == <<"q1", "q2">>

\* The vector the provider gives for a text, and the None of a failed call.
Vector(text) == [of |-> text]
NoVector == [of |-> "None"]

\* None, for a list of FAQs and for an array of vectors.
NoFaqList == <<"None">>
NoVectors == <<NoVector>>

\* np.array(embeddings_list) for the FAQs of valid_faqs.
VectorsOf(valid_faqs) == [i \in 1..Len(valid_faqs) |-> Vector(valid_faqs[i])]

\* The content of a complete cache file.
Snapshot(valid_faqs) == [faqs |-> valid_faqs, embeddings |-> VectorsOf(valid_faqs)]

\* No cache file, and a cache file that was opened for writing and not
\* written to its end.
NoFile == [faqs |-> <<"absent">>, embeddings |-> NoVectors]
PartialFile == [faqs |-> <<"partial">>, embeddings |-> NoVectors]

\* The threads that call into the module.
Threads == {1, 2}

\* Bound: the calls the threads make together.
MaxCalls == 3

\* The texts handed to generate_embedding.
QueryTexts == {"what should I feed my dog"}

NoReturn == [faqs |-> <<"pending">>, embeddings |-> NoVectors]

\* A thread between two calls; n: the calls it has made, prev: what the
\* call before the last returned, ret: what the last call returned, made:
\* the provider calls of the last call, warm: the last call found both
\* globals set, found: the cache file as the call under way found it,
\* wrote: the last call opened the cache file for writing.
IdleThread(n, prev, ret, made, warm) ==
    [pc |-> "idle", op |-> "none", force |-> FALSE, text |-> "",
     valid |-> <<>>, i |-> 0, data |-> NoFile, found |-> NoFile, wrote |-> FALSE,
     n |-> n, prev |-> prev, ret |-> ret, made |-> made, warm |-> warm]

NewThread == IdleThread(0, NoReturn, NoReturn, 0, FALSE)

\* A thread that makes no call.
OffThread == [NewThread EXCEPT !.pc = "off"]

\* The call of thread t returns ret.
Return(th, ret) ==
    [th EXCEPT !.pc = "idle", !.ret = ret, !.n = th.n + 1, !.found = NoFile]

\* The calls begun by thread th, and by all threads.
Begun(th) == th.n + (IF th.pc \in {"idle", "off"} THEN 0 ELSE 1)

RECURSIVE SumBegun(_, _)
SumBegun(ls, ts) ==
    IF ts = {} THEN 0
    ELSE LET t == CHOOSE x \in ts : TRUE
         IN Begun(ls[t]) + SumBegun(ls, ts \ {t})

CallsBegun(ls) == SumBegun(ls, Threads)

\* if _faq_cache is not None and _embeddings_cache is not None and not force_regenerate
MemoryCacheWarm(f, e, force_regenerate) ==
    f # NoFaqList /\ e # NoVectors /\ ~force_regenerate

\* generate_embedding(text): one call of the provider when the client
\* exists; its exception gives None.
GenerateQueryEmbedding(t) ==
    /\ loaders[t].pc = "idle" /\ CallsBegun(loaders) < MaxCalls
    /\ \E text \in QueryTexts, ok \in BOOLEAN :
         /\ loaders' = [loaders EXCEPT ![t] =
               [Return(@, [faqs |-> <<text>>,
                           embeddings |-> IF client /\ ok THEN <<Vector(text)>>
                                          ELSE NoVectors])
                  EXCEPT !.op = "generate_embedding", !.text = text,
                         !.prev = loaders[t].ret,
                         !.made = IF client THEN 1 ELSE 0, !.warm = FALSE,
                         !.found = NoFile, !.wrote = FALSE]]
         /\ provider_calls' = IF client THEN provider_calls + 1 ELSE provider_calls
    /\ UNCHANGED <<faq_cache, embeddings_cache, cache_file>>
    /\ UNCHANGED <<faqVars, detVars, upVars, composed, llm, extVars>>

\* load_or_generate_embeddings(force_regenerate) up to the choice of its
\* path: the globals, the cache file, or the FAQ file.
BeginLoad(t) ==
    /\ loaders[t].pc = "idle" /\ CallsBegun(loaders) < MaxCalls
    /\ \E force \in BOOLEAN :
         LET warm == MemoryCacheWarm(faq_cache, embeddings_cache, force)
             th == [loaders[t] EXCEPT !.op = "load_or_generate_embeddings",
                                      !.force = force, !.text = "",
                                      !.prev = loaders[t].ret,
                                      !.made = 0, !.warm = warm,
                                      !.valid = <<>>, !.i = 0, !.data = NoFile,
                                      !.found = cache_file, !.wrote = FALSE]
         IN loaders' = [loaders EXCEPT ![t] =
               IF warm
               THEN Return(th, [faqs |-> faq_cache, embeddings |-> embeddings_cache])
               ELSE IF cache_file # NoFile /\ ~force
               THEN [th EXCEPT !.pc = "read_file"]
               ELSE [th EXCEPT !.pc = "load_faqs"]]
    /\ UNCHANGED <<provider_calls, faq_cache, embeddings_cache, cache_file>>
    /\ UNCHANGED <<faqVars, detVars, upVars, composed, llm, extVars>>

\* Mutant: no file can be read.
SnapshotNeverReadable(file) == FALSE

\* open(_cache_file, "rb") and pickle.load succeed on the file.
SnapshotReadable(file) == file \notin {NoFile, PartialFile}

\* with open(_cache_file, "rb"): cache_data = pickle.load(f); a file that
\* is not complete makes pickle.load raise, and the except goes on to
\* regenerate.
ReadCacheFile(t) ==
    /\ loaders[t].pc = "read_file"
    /\ loaders' = [loaders EXCEPT ![t] =
          IF SnapshotReadable(cache_file)
          THEN [@ EXCEPT !.pc = "store_loaded_faqs", !.data = cache_file]
          ELSE [@ EXCEPT !.pc = "load_faqs"]]
    /\ UNCHANGED <<provider_calls, faq_cache, embeddings_cache, cache_file>>
    /\ UNCHANGED <<faqVars, detVars, upVars, composed, llm, extVars>>

\* _faq_cache = cache_data.get("faqs")
StoreLoadedFaqs(t) ==
    /\ loaders[t].pc = "store_loaded_faqs"
    /\ faq_cache' = loaders[t].data.faqs
    /\ loaders' = [loaders EXCEPT ![t].pc = "store_loaded_embeddings"]
    /\ UNCHANGED <<provider_calls, embeddings_cache, cache_file>>
    /\ UNCHANGED <<faqVars, detVars, upVars, composed, llm, extVars>>

\* _embeddings_cache = cache_data.get("embeddings"), then
\* if _faq_cache and _embeddings_cache is not None: return the two globals
StoreLoadedEmbeddings(t) ==
    /\ loaders[t].pc = "store_loaded_embeddings"
    /\ embeddings_cache' = loaders[t].data.embeddings
    /\ loaders' = [loaders EXCEPT ![t] =
          IF faq_cache \notin {NoFaqList, <<>>}
          THEN Return(@, [faqs |-> faq_cache, embeddings |-> loaders[t].data.embeddings])
          ELSE [@ EXCEPT !.pc = "load_faqs"]]
    /\ UNCHANGED <<provider_calls, faq_cache, cache_file>>
    /\ UNCHANGED <<faqVars, detVars, upVars, composed, llm, extVars>>

\* faqs = load_faqs_from_json(); if client is None: return faqs, None
LoadFaqsFromJson(t) ==
    /\ loaders[t].pc = "load_faqs"
    /\ loaders' = [loaders EXCEPT ![t] =
          IF client THEN [@ EXCEPT !.pc = "embed", !.i = 1]
          ELSE Return(@, [faqs |-> FaqFile, embeddings |-> NoVectors])]
    /\ UNCHANGED <<provider_calls, faq_cache, embeddings_cache, cache_file>>
    /\ UNCHANGED <<faqVars, detVars, upVars, composed, llm, extVars>>

\* One round of the loop over the FAQs: generate_embedding(question); an FAQ
\* without a vector is left out of valid_faqs.  After the last round:
\* if not embeddings_list: return faqs, None
EmbedNextFaq(t) ==
    /\ loaders[t].pc = "embed"
    /\ \E ok \in BOOLEAN :
         LET th == loaders[t]
             valid == IF ok THEN Append(th.valid, FaqFile[th.i]) ELSE th.valid
             next == [th EXCEPT !.valid = valid, !.i = th.i + 1, !.made = th.made + 1]
         IN loaders' = [loaders EXCEPT ![t] =
               IF th.i < Len(FaqFile) THEN next
               ELSE IF valid = <<>>
               THEN Return(next, [faqs |-> FaqFile, embeddings |-> NoVectors])
               ELSE [next EXCEPT !.pc = "open_file"]]
    /\ provider_calls' = provider_calls + 1
    /\ UNCHANGED <<faq_cache, embeddings_cache, cache_file>>
    /\ UNCHANGED <<faqVars, detVars, upVars, composed, llm, extVars>>

\* with open(_cache_file, "wb"): the file is created or cut to nothing; an
\* exception of open is caught and the file stays as it was.
OpenCacheFile(t) ==
    /\ loaders[t].pc = "open_file"
    /\ \E ok \in BOOLEAN :
         /\ cache_file' = IF ok THEN PartialFile ELSE cache_file
         /\ loaders' = [loaders EXCEPT ![t].pc = IF ok THEN "dump_file" ELSE "store_generated",
                                       ![t].wrote = ok]
    /\ UNCHANGED <<provider_calls, faq_cache, embeddings_cache>>
    /\ UNCHANGED <<faqVars, detVars, upVars, composed, llm, extVars>>

\* pickle.dump({"faqs": valid_faqs, "embeddings": embeddings_array}, f); an
\* exception of the write is caught and leaves the file incomplete.
DumpCacheFile(t) ==
    /\ loaders[t].pc = "dump_file"
    /\ \E ok \in BOOLEAN :
         cache_file' = IF ok THEN Snapshot(loaders[t].valid) ELSE PartialFile
    /\ loaders' = [loaders EXCEPT ![t].pc = "store_generated"]
    /\ UNCHANGED <<provider_calls, faq_cache, embeddings_cache>>
    /\ UNCHANGED <<faqVars, detVars, upVars, composed, llm, extVars>>

\* _faq_cache = valid_faqs; _embeddings_cache = embeddings_array;
\* return valid_faqs, embeddings_array
StoreGenerated(t) ==
    /\ loaders[t].pc = "store_generated"
    /\ faq_cache' = loaders[t].valid
    /\ embeddings_cache' = VectorsOf(loaders[t].valid)
    /\ loaders' = [loaders EXCEPT ![t] = Return(@, Snapshot(loaders[t].valid))]
    /\ UNCHANGED <<provider_calls, cache_file>>
    /\ UNCHANGED <<faqVars, detVars, upVars, composed, llm, extVars>>

(***************************************************************************)
(* The language-model functions (services/llm_service.py                   *)
(* generate_dynamic_answer, generate_dynamic_answer_with_faq_context;      *)
(* services/chat_service.py chatgpt_fallback)                              *)
(***************************************************************************)

\* The topics whose words check_faq_match looks for, in the order of its
\* branches, and the words of each that generate_fallback_response lacks.
FaqTopics == <<"greeting", "health", "nutrition", "exercise", "behavior", "care">>

\* A question: the topics it has a word of that both functions know, and
\* the topics it has a word of that check_faq_match alone knows
\* ('symptom', 'feeding', 'workout', 'discipline', 'brush').
Question(both, faq_only) == [both |-> both, faq_only |-> faq_only]

Questions ==
    { Question({}, {}), Question({"greeting"}, {}), Question({"health"}, {}),
      Question({"nutrition"}, {}), Question({"exercise"}, {}),
      Question({"behavior"}, {}), Question({"care"}, {}),
      Question({}, {"health"}), Question({"nutrition", "care"}, {}) }

\* The first topic of FaqTopics in topics, "" when there is none.
FirstTopic(topics) ==
    LET hit == {i \in 1..Len(FaqTopics) : FaqTopics[i] \in topics}
    IN IF hit = {} THEN ""
       ELSE FaqTopics[CHOOSE i \in hit : \A j \in hit : i <= j]

\* What a language-model function hands back: a text of some kind, None, or
\* an exception that leaves the function.
LlmReturn(kind, topic) == [kind |-> kind, topic |-> topic]

LlmPending == LlmReturn("pending", "")

\* check_faq_match: the personalised answer of the first topic, or None.
CheckFaqMatch(question) ==
    LET topic == FirstTopic(question.both \cup question.faq_only)
    IN IF topic = "" THEN LlmReturn("None", "")
       ELSE LlmReturn("faq_response", topic)

\* generate_fallback_response: the canned answer of the first topic, or one
\* of the default answers.
GenerateFallbackResponse(question) ==
    LET topic == FirstTopic(question.both)
    IN LlmReturn("fallback_response", IF topic = "" THEN "default" ELSE topic)

\* The outcomes of client.chat.completions.create: a completion, or an
\* exception whose text holds the given markers.
LlmOutcomes ==
    { [ok |-> TRUE, error |-> {}],
      [ok |-> FALSE, error |-> {"insufficient_quota"}],
      [ok |-> FALSE, error |-> {"429"}],
      [ok |-> FALSE, error |-> {"invalid_api_key"}],
      [ok |-> FALSE, error |-> {"401"}],
      [ok |-> FALSE, error |-> {"429", "401"}],
      [ok |-> FALSE, error |-> {}] }

\* The outcome when the key is the placeholder: the provider refuses it.
BadKeyOutcomes == {o \in LlmOutcomes : ~o.ok /\ o.error \cap {"invalid_api_key", "401"} # {}}

\* Mutant: the exception is raised again.
LlmExceptReraise(error_str, question) == LlmReturn("raised", "")

\* The except clause of generate_dynamic_answer and of
\* generate_dynamic_answer_with_faq_context.
LlmExcept(error_str, question) ==
    IF "insufficient_quota" \in error_str \/ "429" \in error_str
    THEN LlmReturn("quota_notice", "")
    ELSE IF "invalid_api_key" \in error_str \/ "401" \in error_str
    THEN LlmReturn("invalid_key_notice", "")
    ELSE GenerateFallbackResponse(question)

\* The except clause of chatgpt_fallback: "ChatGPT unavailable: " and the
\* text of the exception.
ChatgptExcept(error_str) == LlmReturn("unavailable_notice", "")

LlmFunctions ==
    {"generate_dynamic_answer", "generate_dynamic_answer_with_faq_context",
     "chatgpt_fallback"}

NewLlmCall(fn, question, configured) ==
    [fn |-> fn, question |-> question, configured |-> configured,
     pc |-> IF fn = "generate_dynamic_answer" THEN "faq"
            ELSE IF fn = "chatgpt_fallback" THEN "create" ELSE "client",
     outcome |-> [ok |-> TRUE, error |-> {"not called"}],
     ret |-> LlmPending]

NoLlmCall == [NewLlmCall("none", Question({}, {}), FALSE) EXCEPT !.pc = "idle"]

\* Step 1 of generate_dynamic_answer: faq_response = check_faq_match(...)
LlmCheckFaq ==
    /\ llm.pc = "faq"
    /\ llm' = IF CheckFaqMatch(llm.question).kind = "None"
              THEN [llm EXCEPT !.pc = "client"]
              ELSE [llm EXCEPT !.pc = "done", !.ret = CheckFaqMatch(llm.question)]
    /\ UNCHANGED <<faqVars, detVars, upVars, composed, cacheVars, extVars>>

\* if client is None: return generate_fallback_response(question, pet_profile)
LlmCheckClient ==
    /\ llm.pc = "client"
    /\ llm' = IF llm.configured THEN [llm EXCEPT !.pc = "create"]
              ELSE [llm EXCEPT !.pc = "done",
                               !.ret = GenerateFallbackResponse(llm.question)]
    /\ UNCHANGED <<faqVars, detVars, upVars, composed, cacheVars, extVars>>

\* The try block: client.chat.completions.create and the return of the
\* completion's text, or the except clause.  The client of chat_service is
\* built with whatever key there is.
LlmCreateCompletion ==
    /\ llm.pc = "create"
    /\ \E o \in IF llm.configured THEN LlmOutcomes ELSE BadKeyOutcomes :
         llm' = [llm EXCEPT
                   !.pc = "done", !.outcome = o,
                   !.ret = IF o.ok THEN LlmReturn("completion", "")
                           ELSE IF llm.fn = "chatgpt_fallback"
                           THEN ChatgptExcept(o.error)
                           ELSE LlmExcept(o.error, llm.question)]
    /\ UNCHANGED <<faqVars, detVars, upVars, composed, cacheVars, extVars>>

(***************************************************************************)
(* The similarity searches called on their own: search_faqs                *)
(* (faq_service.py), search_faqs_vector_db and search_faqs_fallback        *)
(* (faq_service_optimized.py), with any top_k and min_similarity.          *)
(***************************************************************************)

\* Bound: the rows of the table a search runs on.
MaxRows == 4

\* The table of n entries, in the order they were stored.
SearchTable(n) == [i \in 1..n |-> FaqRow(i, {}, {}, ShortAnswer)]

\* Similarities of a row: no embedding, below both cutoffs used here,
\* between them, above them.
SearchScores == {NoEmbedding, Pct(54), Pct(70), Pct(85)}

SearchFunctions == {"search_faqs", "search_faqs_vector_db", "search_faqs_fallback"}

NewSearch(fn, table, sims, top_k, min_similarity) ==
    [fn |-> fn, table |-> table, sims |-> sims, top_k |-> top_k,
     min_similarity |-> min_similarity, pc |-> "start", results |-> <<>>]

NoSearch == [NewSearch("none", <<>>, <<>>, 0, 0) EXCEPT !.pc = "idle"]

SearchReturns(results) == [search EXCEPT !.pc = "done", !.results = results]

\* search_faqs: the cached entries are a list in the order of the FAQ file.
RunSearchFaqs ==
    /\ search.pc = "start" /\ search.fn = "search_faqs"
    /\ \E cl \in BOOLEAN, load \in {"ok", "raise"}, embed \in {"ok", "none"} :
         search' = SearchReturns(SearchFaqs(search.table, cl, search.sims, load, embed,
                                            search.top_k, search.min_similarity))
    /\ UNCHANGED <<faqVars, detVars, upVars, composed, cacheVars, llm, migVars, sessVars>>

\* search_faqs_fallback: db.query(FAQ).filter(...).all() has no ORDER BY.
RunSearchFaqsFallback ==
    /\ search.pc \in {"start", "except"}
    /\ search.pc = "start" => search.fn = "search_faqs_fallback"
    /\ \/ \E f \in ScanOrders(Len(search.table)) :
            search' = SearchReturns(CosineFallback(InOrder(search.table, f),
                                                   InOrder(search.sims, f),
                                                   search.top_k, search.min_similarity))
       \/ search' = SearchReturns(<<>>)
    /\ UNCHANGED <<faqVars, detVars, upVars, composed, cacheVars, llm, migVars, sessVars>>

\* search_faqs_vector_db: ORDER BY the distance alone; when the query
\* raises, the except clause calls search_faqs_fallback.
RunSearchFaqsVectorDb ==
    /\ search.pc = "start" /\ search.fn = "search_faqs_vector_db"
    /\ \/ \E f \in ScanOrders(Len(search.table)) :
            search' = SearchReturns(VectorQuery(InOrder(search.table, f),
                                                InOrder(search.sims, f),
                                                search.top_k, search.min_similarity))
       \/ search' = [search EXCEPT !.pc = "except"]
    /\ UNCHANGED <<faqVars, detVars, upVars, composed, cacheVars, llm, migVars, sessVars>>

(***************************************************************************)
(* The migration script (scripts/migrate_faqs_to_db.py) and the faqs       *)
(* table (models/database_models.py, FAQ)                                  *)
(***************************************************************************)

\* A text is a sequence of characters; Blank is the whitespace character.
Blank == " "

\* str.strip(): the text without its leading and trailing whitespace.
Strip(s) ==
    LET inked == {i \in 1..Len(s) : s[i] # Blank}
    IN IF inked = {} THEN <<>>
       ELSE SubSeq(s, CHOOSE i \in inked : \A j \in inked : i <= j,
                      CHOOSE i \in inked : \A j \in inked : i >= j)

\* Bound: the entries of the JSON file of one run.
MaxInput == 2

\* The entries of a JSON file: questions that differ in outer whitespace
\* only, and a question of whitespace only.
MigrationEntries ==
    {[question |-> <<"a">>, answer |-> <<"x">>],
     [question |-> <<Blank, "a", Blank>>, answer |-> <<"y">>],
     [question |-> <<"b">>, answer |-> <<"x", Blank>>],
     [question |-> <<Blank>>, answer |-> <<"x">>]}

RECURSIVE FilesOfLen(_)
FilesOfLen(n) ==
    IF n = 0 THEN {<<>>}
    ELSE {Append(f, e) : f \in FilesOfLen(n - 1), e \in MigrationEntries}

MigrationFiles == UNION {FilesOfLen(n) : n \in 0..MaxInput}

\* What generate_embedding of the script does: it returns one of the
\* provider's vectors, or raises for the quota or for another error.
EmbeddingVectors == {"e1", "e2"}
EmbeddingErrors == {"quota", "error"}

\* embedding = None
NullEmbedding == "null"

\* A row of the faqs table; the category column takes no part in the model.
MigratedFaq(id, question, answer, embedding) ==
    [id |-> id, question |-> question, answer |-> answer, embedding |-> embedding]

\* db.query(FAQ).filter(FAQ.question == question).first(): the position of
\* the row, 0 for None.
FindExisting(rows, question) ==
    LET hits == {k \in 1..Len(rows) : rows[k].question = question}
    IN IF hits = {} THEN 0 ELSE CHOOSE k \in hits : \A j \in hits : k <= j

\* Mutant: the update stores whatever the embedding call left.
UpdatedEmbeddingAlways(old, outcome) ==
    IF outcome \in EmbeddingVectors THEN outcome ELSE NullEmbedding

\* if embedding: existing.embedding = embedding
UpdatedEmbedding(old, outcome) ==
    IF outcome \in EmbeddingVectors THEN outcome ELSE old

\* embedding=embedding if embedding else None
InsertedEmbedding(outcome) ==
    IF outcome \in EmbeddingVectors THEN outcome ELSE NullEmbedding

\* A run of migrate_faqs: its arguments, the entries processed so far, and
\* what the last entry came to (the counter it raised and the outcome of
\* its embedding call).
NewMigration(faqs_json, force) ==
    [pc |-> "loop", faqs_json |-> faqs_json, force |-> force, i |-> 0,
     counted |-> "none", embedding |-> "none"]

NoMigration == [NewMigration(<<>>, FALSE) EXCEPT !.pc = "idle"]

\* python migrate_faqs_to_db.py [--file ...] [--force]
StartMigration ==
    /\ migration.pc = "idle"
    /\ \E faqs_json \in MigrationFiles, force \in BOOLEAN :
         migration' = NewMigration(faqs_json, force)
    /\ UNCHANGED <<faqVars, detVars, upVars, composed, cacheVars, llm, search, faqs_table, sessVars>>

\* One pass of the for loop: the entry is skipped, updated or added, and a
\* commit that raises is rolled back.
MigrateEntry ==
    /\ migration.pc = "loop"
    /\ migration.i < Len(migration.faqs_json)
    /\ LET faq_data == migration.faqs_json[migration.i + 1]
           question == Strip(faq_data.question)
           answer == Strip(faq_data.answer)
           existing == FindExisting(faqs_table, question)
           next(counted, embedding) ==
               [migration EXCEPT !.i = @ + 1, !.counted = counted, !.embedding = embedding]
       IN IF question = <<>> \/ answer = <<>>
          THEN /\ migration' = next("skipped", "none")
               /\ UNCHANGED faqs_table
          ELSE IF existing # 0 /\ ~migration.force
          THEN /\ migration' = next("skipped", "none")
               /\ UNCHANGED faqs_table
          ELSE \E outcome \in EmbeddingVectors \cup EmbeddingErrors, committed \in BOOLEAN :
                 IF ~committed
                 THEN /\ migration' = next("errors", outcome)
                      /\ UNCHANGED faqs_table
                 ELSE IF existing # 0
                 THEN /\ migration' = next("updated", outcome)
                      /\ faqs_table' =
                           [faqs_table EXCEPT
                              ![existing].answer = answer,
                              ![existing].embedding = UpdatedEmbedding(@, outcome)]
                 ELSE /\ migration' = next("added", outcome)
                      /\ faqs_table' =
                           Append(faqs_table,
                                  MigratedFaq(Len(faqs_table) + 1, question, answer,
                                         InsertedEmbedding(outcome)))
    /\ UNCHANGED <<faqVars, detVars, upVars, composed, cacheVars, llm, search, sessVars>>

\* The loop is over and the summary is printed.
FinishMigration ==
    /\ migration.pc = "loop"
    /\ migration.i = Len(migration.faqs_json)
    /\ migration' = [migration EXCEPT !.pc = "idle"]
    /\ UNCHANGED <<faqVars, detVars, upVars, composed, cacheVars, llm, search, faqs_table, sessVars>>

(***************************************************************************)
(* The session store (services/session_store.py, SessionStore), called     *)
(* from the threads of the server for one session id.                      *)
(***************************************************************************)

\* The threads that call the store.
Callers == {1, 2}

\* Bound: the calls the threads make together.
MaxOps == 3

\* The methods called.
StoreMethods == {"add_chat", "add_chat_message", "end_session"}


\* The store: lock: the thread inside "with self._lock" (0 for none),
\* present: session_id in self._sessions, chat_history: the list object of
\* the session's dict (it outlives the pop), file: the history in the
\* snapshot file, begun: the calls begun so far.
NewStore ==
    [lock |-> 0, present |-> TRUE, chat_history |-> <<>>, file |-> <<>>, begun |-> 0]

\* The entries a call appends, told by the number of the call.
Entry(role, n) == [role |-> role, text |-> n]

\* None, where end_session returns no dict.
NoHistory == <<Entry("None", 0)>>

\* A thread between two calls, with what its last call came to: msg: the
\* number of the call, which tells its messages from the others', raised:
\* the argument of the KeyError it raised, returned: what it returned.
IdleCaller ==
    [pc |-> "idle", op |-> "none", msg |-> 0, raised |-> "none", returned |-> NoHistory]


\* with self._lock: the thread waits until the lock is free.
Acquire(t, next) ==
    /\ store.lock = 0
    /\ store' = [store EXCEPT !.lock = t]
    /\ callers' = [callers EXCEPT ![t].pc = next]

\* A thread begins a call of one of the methods.
BeginStoreCall(t) ==
    /\ callers[t].pc \in {"idle", "done"}
    /\ store.begun < MaxOps
    /\ \E op \in StoreMethods :
         callers' = [callers EXCEPT ![t] =
                       [IdleCaller EXCEPT !.pc = "lock", !.op = op, !.msg = store.begun + 1]]
    /\ store' = [store EXCEPT !.begun = @ + 1]
    /\ UNCHANGED <<faqVars, detVars, upVars, composed, cacheVars, llm, search, migVars>>

\* with self._lock, at the head of each of the three methods.
LockStore(t) ==
    /\ callers[t].pc = "lock"
    /\ Acquire(t, "locked")
    /\ UNCHANGED <<faqVars, detVars, upVars, composed, cacheVars, llm, search, migVars>>

\* add_chat inside the lock: the existence check alone; the lock is
\* released at the end of the with block.
AddChatCheck(t) ==
    /\ callers[t].pc = "locked" /\ callers[t].op = "add_chat"
    /\ store' = [store EXCEPT !.lock = 0]
    /\ callers' = [callers EXCEPT ![t] =
                     IF store.present THEN [@ EXCEPT !.pc = "lookup"]
                     ELSE [@ EXCEPT !.pc = "done", !.raised = "Invalid session_id"]]
    /\ UNCHANGED <<faqVars, detVars, upVars, composed, cacheVars, llm, search, migVars>>

\* add_chat after the lock: self._sessions[session_id]["chat_history"], a
\* KeyError of the dict when the id is gone.
AddChatLookup(t) ==
    /\ callers[t].pc = "lookup"
    /\ callers' = [callers EXCEPT ![t] =
                     IF store.present THEN [@ EXCEPT !.pc = "append"]
                     ELSE [@ EXCEPT !.pc = "done", !.raised = "session_id"]]
    /\ UNCHANGED <<faqVars, detVars, upVars, composed, cacheVars, llm, search, migVars, store>>

\* add_chat after the lock: .append({"role": normalized_role, "text": text})
\* on the list it looked up.
AddChatAppend(t) ==
    /\ callers[t].pc = "append"
    /\ store' = [store EXCEPT !.chat_history = Append(@, Entry("user", callers[t].msg))]
    /\ callers' = [callers EXCEPT ![t].pc = "snapshot"]
    /\ UNCHANGED <<faqVars, detVars, upVars, composed, cacheVars, llm, search, migVars>>

\* add_chat_message inside the lock: the existence check and the first append.
AddChatMessageUser(t) ==
    /\ callers[t].pc = "locked" /\ callers[t].op = "add_chat_message"
    /\ IF store.present
       THEN /\ store' = [store EXCEPT
                           !.chat_history = Append(@, Entry("user", callers[t].msg))]
            /\ callers' = [callers EXCEPT ![t].pc = "second"]
       ELSE /\ store' = [store EXCEPT !.lock = 0]
            /\ callers' = [callers EXCEPT ![t].pc = "done",
                                          ![t].raised = "Invalid session_id"]
    /\ UNCHANGED <<faqVars, detVars, upVars, composed, cacheVars, llm, search, migVars>>

\* add_chat_message inside the lock: the second append, and the release.
AddChatMessageBot(t) ==
    /\ callers[t].pc = "second"
    /\ store' = [store EXCEPT
                   !.chat_history = Append(@, Entry("assistant", callers[t].msg)),
                   !.lock = 0]
    /\ callers' = [callers EXCEPT ![t].pc = "snapshot"]
    /\ UNCHANGED <<faqVars, detVars, upVars, composed, cacheVars, llm, search, migVars>>

\* _save_snapshot: with self._lock.
LockSnapshot(t) ==
    /\ callers[t].pc = "snapshot"
    /\ Acquire(t, "dump")
    /\ UNCHANGED <<faqVars, detVars, upVars, composed, cacheVars, llm, search, migVars>>

\* _save_snapshot inside the lock: nothing for an id that is gone, else the
\* dict is written to the file.
SaveSnapshot(t) ==
    /\ callers[t].pc = "dump"
    /\ store' = [store EXCEPT !.lock = 0,
                              !.file = IF store.present THEN store.chat_history ELSE @]
    /\ callers' = [callers EXCEPT ![t].pc = "done"]
    /\ UNCHANGED <<faqVars, detVars, upVars, composed, cacheVars, llm, search, migVars>>

\* end_session inside the lock: data = self._sessions.pop(session_id, None).
EndSessionPop(t) ==
    /\ callers[t].pc = "locked" /\ callers[t].op = "end_session"
    /\ store' = [store EXCEPT !.lock = 0, !.present = FALSE]
    /\ callers' = [callers EXCEPT ![t].pc = IF store.present THEN "final" ELSE "done"]
    /\ UNCHANGED <<faqVars, detVars, upVars, composed, cacheVars, llm, search, migVars>>

\* end_session after the lock: the final snapshot is written and data is
\* returned, as it is at that moment.
EndSessionDump(t) ==
    /\ callers[t].pc = "final"
    /\ store' = [store EXCEPT !.file = store.chat_history]
    /\ callers' = [callers EXCEPT ![t].pc = "done", ![t].returned = store.chat_history]
    /\ UNCHANGED <<faqVars, detVars, upVars, composed, cacheVars, llm, search, migVars>>

(***************************************************************************)
(* The FAQ specification: one call of an answer function on a table.       *)
(***************************************************************************)

\* The words of a query no stage has read yet.
Unread == <<"?">>

NewFaqCall(fn) ==
    [fn |-> fn, query |-> Unread, pc |-> "start", site |-> "try",
     stages |-> <<>>, results |-> <<>>]

NoFaqCall == [NewFaqCall("none") EXCEPT !.pc = "done"]

\* No image has been uploaded.
NoDetCall == <<>>
NoDetResult == DetReturn(FALSE, NoLabel, 0, "none")

IdleDet == detCall = NoDetCall /\ detResult = NoDetResult

NoUpload == [NewUpload EXCEPT !.pc = "idle"]

IdleUpload == chatMessages = <<>> /\ uploadedImages = <<>> /\ upload = NoUpload

\* No composer has been called.
NoComposed == [fn |-> "none", conf |-> 0, text |-> ""]

\* The module faq_service has been imported and no thread has called it.
IdleCache ==
    /\ provider_calls = 0
    /\ faq_cache = NoFaqList
    /\ embeddings_cache = NoVectors
    /\ cache_file = NoFile
    /\ loaders = [t \in Threads |-> OffThread]

\* None of the other components has been called.
IdleMigration == faqs_table = <<>> /\ migration = NoMigration
IdleSessions == store = NewStore /\ callers = [t \in Callers |-> IdleCaller]
IdleExt == search = NoSearch /\ IdleMigration /\ IdleSessions

IdleServices == composed = NoComposed /\ IdleCache /\ llm = NoLlmCall /\ IdleExt

InitFaq ==
    /\ client \in BOOLEAN
    /\ faqs \in FaqTables
    /\ \E fn \in {"get_faq_answer_optimized", "get_faq_answer"} :
         faqCall = NewFaqCall(fn)
    /\ faqResult = FaqPending
    /\ IdleDet
    /\ IdleUpload
    /\ IdleServices

NextFaq ==
    \/ CheckClient
    \/ GenerateEmbedding
    \/ SearchFaqsVectorDb
    \/ SearchFaqsFallback
    \/ SearchFaqsKeywordFallback
    \/ ClassifyBest
    \/ GetFaqAnswer

SpecFaq == InitFaq /\ [][NextFaq]_vars

(***************************************************************************)
(* Properties of the FAQ matcher chain                                     *)
(***************************************************************************)

FaqDone == faqCall.pc = "done"

LastStage == faqCall.stages[Len(faqCall.stages)]

\* The call returned a match of the vector store or of a cosine search.
FromSemantic ==
    /\ FaqDone /\ faqCall.results # <<>>
    /\ LastStage.stage \in {"vector", "in_memory", "cache"}

\* The call returned a match of the keyword matcher.
FromKeyword ==
    /\ FaqDone /\ faqCall.results # <<>>
    /\ LastStage.stage = "keyword"

TierRank == [none |-> 0, low |-> 1, medium |-> 2, high |-> 3]

\* The tier of a score under the cutoffs 0.85 / 0.70 / 0.55.
CutoffTier(s) ==
    CASE s >= Pct(85) -> "high"
      [] s >= Pct(70) /\ s < Pct(85) -> "medium"
      [] s >= Pct(55) /\ s < Pct(70) -> "low"
      [] OTHER -> "none"

ScorePoints == VectorScores \cup {0, Pct(30), Unit}

\* C1: the tier reported for a vector-search score is the tier of the score
\* under the cutoffs 0.85 / 0.70 / 0.55, in get_faq_answer_optimized and in
\* get_faq_answer, and it never decreases when the score increases.
C1_TierMonotone ==
    /\ \A s1, s2 \in ScorePoints :
         s1 < s2 =>
           /\ TierRank[ConfidenceLevel(s1)] <= TierRank[ConfidenceLevel(s2)]
           /\ TierRank[FaqServiceConfidenceLevel(s1)] <= TierRank[FaqServiceConfidenceLevel(s2)]
    /\ FromSemantic =>
         /\ faqResult.similarity = faqCall.results[1].sim
         /\ faqResult.confidence = CutoffTier(faqResult.similarity)

\* A vector search reported the score 0.85 exactly, as "high".
C1_Witness ==
    /\ FromSemantic /\ LastStage.stage = "vector"
    /\ faqResult.similarity = Pct(85) /\ faqResult.confidence = "high"

StageRank == [vector |-> 1, in_memory |-> 2, keyword |-> 3]

NextStage == [vector |-> "in_memory", in_memory |-> "keyword"]

OptimizedCall == faqCall.fn = "get_faq_answer_optimized"

\* The stages were invoked in the order vector, in-memory, keyword, each
\* after the ones before it had failed or yielded nothing.
StagesInOrder ==
    \A i \in 1..Len(faqCall.stages) : \A j \in 1..Len(faqCall.stages) :
        i < j =>
          /\ StageRank[faqCall.stages[i].stage] < StageRank[faqCall.stages[j].stage]
          /\ faqCall.stages[i].outcome \in {"failed", "empty"}

\* C3 as stated: the stages run in order, and whenever a stage fails or
\* yields nothing the next stage in the order is the one invoked.
C3_Original ==
    (FaqDone /\ OptimizedCall) =>
        /\ StagesInOrder
        /\ \A i \in 1..Len(faqCall.stages) :
             (faqCall.stages[i].stage # "keyword"
                /\ faqCall.stages[i].outcome \in {"failed", "empty"}) =>
               /\ i < Len(faqCall.stages)
               /\ faqCall.stages[i + 1].stage = NextStage[faqCall.stages[i].stage]

\* C3 amended: the stages run in the order vector, in-memory, keyword, each
\* at most once and only after the stages invoked before it failed or
\* yielded nothing.  A vector query that raises is followed by the in-memory
\* search; a vector query that succeeds with no rows is followed by the
\* keyword matcher, the in-memory search being skipped; an in-memory search
\* that fails or yields nothing is followed by the keyword matcher.  Without
\* a client or a query embedding the keyword matcher is the only stage.
C3_StageOrder ==
    (FaqDone /\ OptimizedCall) =>
        /\ StagesInOrder
        /\ faqCall.stages # <<>>
        /\ faqCall.site \in {"no_client", "no_embedding"} =>
             Len(faqCall.stages) = 1 /\ faqCall.stages[1].stage = "keyword"
        /\ \A i \in 1..Len(faqCall.stages) :
             LET st == faqCall.stages[i]
                 followed == i < Len(faqCall.stages)
                 next == faqCall.stages[i + 1].stage
             IN /\ (st.stage = "vector" /\ st.outcome = "failed") =>
                      followed /\ next = "in_memory"
                /\ (st.stage = "vector" /\ st.outcome = "empty") =>
                      followed /\ next = "keyword"
                /\ (st.stage = "in_memory" /\ st.outcome \in {"failed", "empty"}) =>
                      followed /\ next = "keyword"
                /\ st.outcome = "hit" => ~followed

\* All three stages ran: the vector query raised, the in-memory search
\* found nothing, the keyword matcher found a row.
C3_Witness ==
    /\ FaqDone /\ OptimizedCall
    /\ Len(faqCall.stages) = 3
    /\ faqCall.stages[1] = Stage("vector", "failed")
    /\ faqCall.stages[2] = Stage("in_memory", "empty")
    /\ faqCall.stages[3] = Stage("keyword", "hit")

\* The call ran at most three matching stages and, once returned, let no
\* exception out and gave a match or the result (None, None, "none").
ChainResultOk ==
    OptimizedCall =>
        /\ Len(faqCall.stages) <= 3
        /\ faqCall.pc \in {"start", "embed", "vector", "in_memory", "keyword",
                           "classify", "done"}
        /\ faqCall.pc = "classify" => faqCall.results # <<>>
        /\ FaqDone =>
             /\ faqResult.exc = "none"
             /\ \/ /\ faqResult.confidence \in {"high", "medium", "low"}
                   /\ faqResult.faq # NoFaq /\ faqResult.answer # NoAnswer
                \/ /\ faqResult.confidence = "none"
                   /\ faqResult.faq = NoFaq /\ faqResult.answer = NoAnswer

\* The steps the call can still take before it returns.
StepsLeft ==
    CASE faqCall.pc = "start" -> 5
      [] faqCall.pc = "embed" -> 4
      [] faqCall.pc = "vector" -> 3
      [] faqCall.pc = "in_memory" -> 2
      [] faqCall.pc \in {"keyword", "classify"} -> 1
      [] OTHER -> 0

\* C4: for every outcome of the embedding provider and of the database at
\* each stage, get_faq_answer_optimized is at a step of the chain until it
\* returns, every step brings it closer to the return, it runs at most
\* three matching stages, lets no exception out, and returns a match or the
\* result (None, None, "none").
C4_ChainTerminates == []ChainResultOk /\ [][StepsLeft' < StepsLeft]_vars

\* Every stage failed, the keyword matcher in a call outside the try block
\* included, and the call still returned "none".
C4_Witness ==
    /\ FaqDone /\ OptimizedCall /\ faqResult.confidence = "none"
    /\ \/ faqCall.stages = <<Stage("vector", "failed"), Stage("in_memory", "failed"),
                            Stage("keyword", "failed")>>
       \/ faqCall.site = "no_client" /\ faqCall.stages = <<Stage("keyword", "failed")>>

KeywordHits == IF FromKeyword THEN {faqCall.results[i] : i \in 1..Len(faqCall.results)} ELSE {}

QueryWords == MeaningfulWords(faqCall.query)

\* C5 as stated: a keyword match never reports a similarity >= 0.85.
C5_Original ==
    \A h \in KeywordHits : h.sim < Pct(85)

\* C5 amended: a keyword match never reports a similarity above 0.85 (it
\* reports exactly 0.85 when every query word occurs in the question); a row
\* whose question holds no query word never reports more than 0.75.
C5_KeywordCap ==
    \A h \in KeywordHits :
        /\ h.sim <= Pct(85)
        /\ CountMatches(QueryWords, h.faq.question) = 0 => h.sim <= Pct(75)
        /\ (QueryWords # <<>>
              /\ CountMatches(QueryWords, h.faq.question) = Len(QueryWords)) =>
             h.sim = Pct(85)

\* A query of two keywords, both in the question of the best row, which is
\* reported with 0.85; and a row matched through its answer alone.
C5_Witness ==
    /\ FromKeyword
    /\ Len(QueryWords) >= 2
    /\ CountMatches(QueryWords, faqCall.results[1].faq.question) = Len(QueryWords)
    /\ faqResult.similarity = Pct(85)

(***************************************************************************)
(* The upload specification: one image uploaded for a pet.                 *)
(***************************************************************************)

IdleFaq ==
    client = FALSE /\ faqs = <<>> /\ faqCall = NoFaqCall /\ faqResult = FaqPending

InitUpload ==
    /\ IdleFaq
    /\ IdleServices
    /\ detCall \in Predictions
    /\ detResult = NoDetResult
    /\ chatMessages = <<>>
    /\ uploadedImages = <<>>
    /\ upload = NewUpload

NextUpload ==
    \/ ValidateImage
    \/ RejectNonDog
    \/ PredictBreed
    \/ RejectBreed
    \/ AnalyzeAndStore

SpecUpload == InitUpload /\ [][NextUpload]_vars

(***************************************************************************)
(* Properties of the detector and of the upload handler                    *)
(***************************************************************************)

\* is_dog_image returned for the predictions detCall.
DetReturned == detResult.method \notin {"none", "raised"}

Validated == upload.pc \notin {"idle", "validate"}

UploadDone == upload.pc = "done"

Top1 == detCall[1]

\* C6: when the top-1 label matches the reject list, at any confidence,
\* is_dog_image returns is_dog = False and validate_dog_image returns
\* is_valid = False, whatever the other predictions are and whether or not
\* the label also holds a dog keyword; the breed classifier is not run and
\* the upload is never a success.
C6_RejectListWins ==
    (Validated /\ MatchesNonDog(Top1.label)) =>
        /\ DetReturned =>
             /\ detResult.is_dog = FALSE
             /\ detResult.method = "non_dog_animal_detected"
        /\ upload.valid.is_valid = FALSE
        /\ upload.breedRun = FALSE
        /\ upload.status # "success"
        /\ uploadedImages = <<>>

\* The top-1 label holds a reject keyword and a dog keyword, a dog label
\* follows it above the threshold, and the upload ended as validation_failed.
C6_Witness ==
    /\ UploadDone /\ DetReturned
    /\ MatchesNonDog(Top1.label) /\ HasDogKeyword(Top1.label)
    /\ Top1.prob >= Threshold
    /\ \E i \in 2..Len(detCall) :
         HasDogKeyword(detCall[i].label) /\ ~MatchesNonDog(detCall[i].label)
           /\ detCall[i].prob >= Threshold
    /\ upload.status = "validation_failed"

\* Some prediction of the top 10 is a reject-list label at 0.03 or more
\* (0.02 or more for "ram").
RejectLabelInTop10 ==
    \E i \in 1..Len(detCall) :
        \/ MatchesNonDog(detCall[i].label) /\ detCall[i].prob >= 3
        \/ HasRam(detCall[i].label) /\ detCall[i].prob >= 2

\* C7 as stated: when the top-1 label is not on the reject list and some
\* prediction of the top 10 is a reject-list label at 0.03 or more (0.02 or
\* more for "ram"), is_dog_image returns is_dog = False, for every top-1
\* label and confidence.
C7_Original ==
    (DetReturned /\ ~MatchesNonDog(Top1.label) /\ RejectLabelInTop10)
        => detResult.is_dog = FALSE

\* The accepted image of C7: a dog label on top, a reject-list label below it.
C7_Witness ==
    /\ DetReturned /\ ~MatchesNonDog(Top1.label) /\ RejectLabelInTop10
    /\ detResult.is_dog = TRUE /\ detResult.method = "keyword_match"

\* C8: is_dog_image returns is_dog = True only if some label with a dog
\* keyword has probability 0.25 or more among the top 10; the returned label
\* then holds a dog keyword and the returned confidence is the probability
\* of that label, 0.25 or more.
C8_AcceptNeedsDog ==
    (DetReturned /\ detResult.is_dog) =>
        /\ HasDogKeyword(detResult.label)
        /\ detResult.conf >= 25
        /\ \E i \in 1..Len(detCall) :
             /\ detCall[i].label = detResult.label
             /\ detCall[i].prob = detResult.conf

\* An image accepted on a dog label that is not the top prediction, at 0.25
\* exactly.
C8_Witness ==
    /\ DetReturned /\ detResult.is_dog
    /\ detResult.method = "top10_dog_match"
    /\ ~HasDogKeyword(Top1.label)
    /\ detResult.conf = 25

\* The detector accepted the image and predict_breed returned.
BreedReturned == upload.valid.is_valid /\ upload.predicted # NoPrediction

\* C9 as stated: when the detector accepted the image and the breed
\* classifier returns a confidence below 0.50, the upload answers
\* validation_failed (HTTP 400) and no analysed-image record is stored; an
\* image the detector rejected is never accepted.
C9_Original ==
    /\ (UploadDone /\ BreedReturned /\ upload.predicted.conf < 50) =>
          /\ upload.status = "validation_failed" /\ upload.http = 400
          /\ uploadedImages = <<>>
    /\ (UploadDone /\ ~upload.valid.is_valid) =>
          upload.status # "success" /\ uploadedImages = <<>>

\* The upload of C9 that ended as a success: the breed confidence was below
\* 0.50, a chat write of the rejection raised, the image record was stored.
C9_Witness ==
    /\ UploadDone /\ BreedReturned /\ upload.predicted.conf < 50
    /\ upload.decision = "rejected_low_confidence"
    /\ upload.status = "success" /\ uploadedImages # <<>>

\* C10 as stated: a hairless breed with a detector confidence below 0.40 is
\* rejected (validation_failed), also when the breed confidence is 0.50 or
\* more; a hairless breed with a detector confidence of 0.40 or more is not
\* rejected by this rule.
C10_Original ==
    /\ (UploadDone /\ BreedReturned /\ IsHairlessBreed(upload.predicted.breed)
          /\ upload.valid.conf < 40) =>
          upload.status = "validation_failed"
    /\ (Validated /\ BreedReturned /\ IsHairlessBreed(upload.predicted.breed)
          /\ upload.valid.conf >= 40) =>
          upload.decision # "rejected_hairless"

\* The upload of C10 that ended as a success: a hairless breed at 0.50 or
\* more, a detector confidence below 0.40, a chat write of the rejection
\* raised.
C10_Witness ==
    /\ UploadDone /\ BreedReturned /\ IsHairlessBreed(upload.predicted.breed)
    /\ upload.valid.conf < 40 /\ upload.predicted.conf >= 50
    /\ upload.decision = "rejected_hairless"
    /\ upload.status = "success"

\* The detector raised inside validate_dog_image.
DetectorRaised == detResult = DetRaised

\* C11: an exception inside the detector stage makes validate_dog_image
\* return is_valid = False with confidence 0.0 and the label "unknown"; the
\* handler takes the rejection branch, the breed classifier is not run and
\* the image is never accepted.
C11_DetectorExceptionRejects ==
    (Validated /\ DetectorRaised) =>
        /\ upload.valid = [is_valid |-> FALSE, conf |-> 0, label |-> UnknownLabel]
        /\ upload.decision = "rejected_by_detector"
        /\ upload.pc \in {"reject", "done"}
        /\ upload.breedRun = FALSE
        /\ upload.status # "success"

\* The detector raised on an image whose top prediction is a dog above the
\* threshold, and the upload ended as validation_failed.
C11_Witness ==
    /\ UploadDone /\ DetectorRaised
    /\ HasDogKeyword(Top1.label) /\ ~MatchesNonDog(Top1.label) /\ Top1.prob >= Threshold
    /\ upload.status = "validation_failed"

\* predict_breed was called and raised.
BreedRaised == upload.breedRun /\ upload.predicted = NoPrediction

\* C12 as stated: an exception of predict_breed is mapped to a rejection:
\* the request never ends with status "success" and no analysed-image record
\* is stored.
C12_Original ==
    (UploadDone /\ BreedRaised) =>
        upload.status # "success" /\ uploadedImages = <<>>

\* The upload of C12: predict_breed raised, the request ended as a success
\* and the image record holds the detector's label and confidence.
C12_Witness ==
    /\ UploadDone /\ BreedRaised
    /\ upload.status = "success"
    /\ uploadedImages = <<UploadedImage(LabelAsBreed(upload.valid.label), upload.valid.conf)>>

(***************************************************************************)
(* The composer specification: one composer called on a history.           *)
(***************************************************************************)

\* Bound: the longest history handed to a composer, in messages.
MaxHistory == 4

\* The messages of a history: the user's upload note, and assistant
\* messages of each category and variant and a chat answer.
HistoryMessages ==
    {ChatMessage("user", "uploaded_photo")} \cup
    {ChatMessage("ai_bot", t) : t \in {"low_full", "low_short", "medium_full",
                                       "medium_short", "non_dog_full", "answer"}}

RECURSIVE HistoriesOfLen(_)
HistoriesOfLen(n) ==
    IF n = 0 THEN {<<>>}
    ELSE {Append(h, m) : h \in HistoriesOfLen(n - 1), m \in HistoryMessages}

Histories == UNION {HistoriesOfLen(n) : n \in 0..MaxHistory}

\* Confidences in percent on both sides of the bands 0.30 and 0.60.
ComposerConfs == {20, 30, 45, 60, 70}

Composed(fn, conf, text) == [fn |-> fn, conf |-> conf, text |-> text]

ComposeDogDetection ==
    /\ composed = NoComposed
    /\ \E conf \in ComposerConfs :
         composed' = Composed("get_dog_detection_message", conf,
                              GetDogDetectionMessage(conf, chatMessages))
    /\ UNCHANGED <<faqVars, detVars, upVars, cacheVars, llm, extVars>>

ComposeBreedDetection ==
    /\ composed = NoComposed
    /\ \E conf \in ComposerConfs :
         composed' = Composed("get_breed_detection_message", conf,
                              GetBreedDetectionMessage(conf, chatMessages))
    /\ UNCHANGED <<faqVars, detVars, upVars, cacheVars, llm, extVars>>

ComposeHairlessBreedSuspicion ==
    /\ composed = NoComposed
    /\ composed' = Composed("get_hairless_breed_suspicion_message", 0,
                            GetHairlessBreedSuspicionMessage(chatMessages))
    /\ UNCHANGED <<faqVars, detVars, upVars, cacheVars, llm, extVars>>

\* main.py calls it for a breed confidence below 0.50.
ComposeLowBreedConfidence ==
    /\ composed = NoComposed
    /\ \E conf \in ComposerConfs :
         composed' = Composed("get_low_breed_confidence_message", conf,
                              GetLowBreedConfidenceMessage(conf, chatMessages))
    /\ UNCHANGED <<faqVars, detVars, upVars, cacheVars, llm, extVars>>

ComposeNonDog ==
    /\ composed = NoComposed
    /\ composed' = Composed("get_non_dog_message", 0, GetNonDogMessage(chatMessages))
    /\ UNCHANGED <<faqVars, detVars, upVars, cacheVars, llm, extVars>>

InitComposer ==
    /\ IdleFaq
    /\ IdleDet
    /\ chatMessages \in Histories
    /\ uploadedImages = <<>>
    /\ upload = NoUpload
    /\ composed = NoComposed
    /\ IdleCache
    /\ llm = NoLlmCall
    /\ IdleExt

NextComposer ==
    \/ ComposeDogDetection
    \/ ComposeBreedDetection
    \/ ComposeHairlessBreedSuspicion
    \/ ComposeLowBreedConfidence
    \/ ComposeNonDog

SpecComposer == InitComposer /\ [][NextComposer]_vars

(***************************************************************************)
(* Properties of the composer                                              *)
(***************************************************************************)

\* The category a composer answers in, for the band of its confidence;
\* "none" for the bands that have one text only.
CategoryOfCall(c) ==
    CASE c.fn = "get_dog_detection_message" /\ c.conf < 30 -> LOW_CONFIDENCE_WARNING
      [] c.fn = "get_dog_detection_message" /\ c.conf >= 30 /\ c.conf < 60
           -> MEDIUM_CONFIDENCE_GUIDANCE
      [] c.fn = "get_breed_detection_message" /\ c.conf < 30 -> LOW_CONFIDENCE_WARNING
      [] c.fn = "get_hairless_breed_suspicion_message" -> LOW_CONFIDENCE_WARNING
      [] c.fn = "get_low_breed_confidence_message" /\ c.conf < 30 -> LOW_CONFIDENCE_WARNING
      [] c.fn = "get_low_breed_confidence_message" /\ c.conf >= 30
           -> MEDIUM_CONFIDENCE_GUIDANCE
      [] c.fn = "get_non_dog_message" -> NON_DOG_MESSAGE
      [] OTHER -> "none"

\* The category a composer wrote a text under.
CategoryOfText(text) ==
    CASE text \in {"low_full", "hairless_full", "breed_low_full", "low_short",
                   "breed_low_short", "low_minimal"} -> LOW_CONFIDENCE_WARNING
      [] text \in {"medium_full", "medium_short"} -> MEDIUM_CONFIDENCE_GUIDANCE
      [] text \in {"non_dog_full", "non_dog_short", "non_dog_minimal"} -> NON_DOG_MESSAGE
      [] text = "breed_success" -> SUCCESS_CONFIRMATION
      [] OTHER -> "none"

VariantOfText(text) ==
    CASE text \in {"low_full", "hairless_full", "breed_low_full", "medium_full",
                   "non_dog_full"} -> "full"
      [] text \in {"low_short", "breed_low_short", "medium_short", "non_dog_short"}
           -> "short"
      [] text \in {"low_minimal", "non_dog_minimal"} -> "minimal"
      [] OTHER -> "none"

RECURSIVE ConsecutiveOfCategory(_, _, _)
ConsecutiveOfCategory(ai_messages, i, category) ==
    IF i = 0 THEN 0
    ELSE IF CategoryOfText(ai_messages[i].text) = category
    THEN 1 + ConsecutiveOfCategory(ai_messages, i - 1, category)
    ELSE 0

\* The count c of C13: the most recent consecutive assistant messages of the
\* category, among the last 3 assistant messages.
PriorCount(history, category) ==
    LET ai_messages == LastN(SelectSeq(history, LAMBDA m : m.sender # "user"), 3)
    IN ConsecutiveOfCategory(ai_messages, Len(ai_messages), category)

VariantForCount(c) == IF c = 0 THEN "full" ELSE IF c = 1 THEN "short" ELSE "minimal"

ComposedInCategory == composed # NoComposed /\ CategoryOfCall(composed) # "none"

\* C13 as stated: for every category and history the composer returns the
\* full message for the count c = 0, the shortened reminder for c = 1 and
\* the minimal one-line prompt for c >= 2, c being the number of most recent
\* consecutive assistant messages of the category among the last 3.
C13_Original ==
    ComposedInCategory =>
        VariantOfText(composed.text) =
            VariantForCount(PriorCount(chatMessages, CategoryOfCall(composed)))

\* The composer of C13 that has no minimal variant: two medium-confidence
\* messages came before and the shortened reminder is returned.
C13_Witness ==
    /\ ComposedInCategory
    /\ CategoryOfCall(composed) = MEDIUM_CONFIDENCE_GUIDANCE
    /\ Len(chatMessages) >= 2
    /\ \A i \in 1..Len(chatMessages) : chatMessages[i] = ChatMessage("ai_bot", "medium_full")
    /\ composed.text = "medium_short"

(***************************************************************************)
(* The conversation specification: several images uploaded for one pet,    *)
(* one request after the other.                                            *)
(***************************************************************************)

\* Bound: the uploads of a conversation.
MaxUploads == 3

\* The images of a conversation: an object the detector rejects at 0.15 and
\* a dog it accepts at 0.25.
ConversationPredictions == {<<Pred(Teapot, 15)>>, <<Pred(GoldenRetriever, 25)>>}

\* The next request for the same pet arrives after the response to the last.
NextUploadRequest ==
    /\ upload.pc = "done"
    /\ upload.seq < MaxUploads
    /\ detCall' \in ConversationPredictions
    /\ detResult' = NoDetResult
    /\ upload' = [NewUpload EXCEPT !.seq = upload.seq + 1]
    /\ UNCHANGED <<faqVars, chatMessages, uploadedImages, svcVars>>

InitConversation ==
    /\ IdleFaq
    /\ IdleServices
    /\ detCall \in ConversationPredictions
    /\ detResult = NoDetResult
    /\ chatMessages = <<>>
    /\ uploadedImages = <<>>
    /\ upload = NewUpload

NextConversation ==
    \/ ValidateImage
    \/ RejectNonDog
    \/ PredictBreed
    \/ RejectBreed
    \/ AnalyzeAndStore
    \/ NextUploadRequest

SpecConversation == InitConversation /\ [][NextConversation]_vars

\* Every upload of the conversation so far ended in a rejection whose two
\* chat rows were written, the assistant's a low-confidence warning.
OnlyLowConfidenceRejections ==
    /\ UploadDone
    /\ Len(chatMessages) = 2 * upload.seq
    /\ \A i \in 1..upload.seq :
         /\ chatMessages[2 * i - 1].sender = "user"
         /\ chatMessages[2 * i].sender = "ai_bot"
         /\ CategoryOfText(chatMessages[2 * i].text) = LOW_CONFIDENCE_WARNING

\* C14 as stated: across consecutive uploads that each end in a
\* low-confidence rejection the assistant's messages decay: the first is the
\* full guidance, the second the one-sentence reminder, the third and every
\* later one the single-line prompt.
C14_Original ==
    OnlyLowConfidenceRejections =>
        \A i \in 1..upload.seq :
            VariantOfText(chatMessages[2 * i].text) = VariantForCount(i - 1)

\* Three uploads in a row were rejected for low confidence and each was
\* answered with the full guidance.
C14_Witness ==
    /\ OnlyLowConfidenceRejections
    /\ upload.seq = 3
    /\ upload.status = "validation_failed"
    /\ \A i \in 1..3 : VariantOfText(chatMessages[2 * i].text) = "full"

(***************************************************************************)
(* The embedding-cache specifications: calls of generate_embedding and     *)
(* load_or_generate_embeddings, by one thread and by two.                  *)
(***************************************************************************)

\* What an earlier process can have left as the cache file.
CacheFiles == {NoFile, PartialFile, Snapshot(FaqFile), Snapshot(<<"q2">>)}

CacheStep(t) ==
    \/ GenerateQueryEmbedding(t)
    \/ BeginLoad(t)
    \/ ReadCacheFile(t)
    \/ StoreLoadedFaqs(t)
    \/ StoreLoadedEmbeddings(t)
    \/ LoadFaqsFromJson(t)
    \/ EmbedNextFaq(t)
    \/ OpenCacheFile(t)
    \/ DumpCacheFile(t)
    \/ StoreGenerated(t)

InitCache(running) ==
    /\ client \in BOOLEAN
    /\ faqs = <<>>
    /\ faqCall = NoFaqCall
    /\ faqResult = FaqPending
    /\ IdleDet
    /\ IdleUpload
    /\ composed = NoComposed
    /\ llm = NoLlmCall
    /\ IdleExt
    /\ provider_calls = 0
    /\ faq_cache = NoFaqList
    /\ embeddings_cache = NoVectors
    /\ cache_file \in CacheFiles
    /\ loaders = [t \in Threads |-> IF t \in running THEN NewThread ELSE OffThread]

InitEmbeddingCache == InitCache({1})

NextEmbeddingCache == \E t \in Threads : CacheStep(t)

SpecEmbeddingCache == InitEmbeddingCache /\ [][NextEmbeddingCache]_vars

InitCacheRace == InitCache(Threads)

NextCacheRace == \E t \in Threads : CacheStep(t)

SpecCacheRace == InitCacheRace /\ [][NextCacheRace]_vars

(***************************************************************************)
(* Properties of the embedding cache.                                      *)
(***************************************************************************)

\* The last call of thread t has returned.
CallReturned(t) == loaders[t].pc = "idle" /\ loaders[t].n > 0

\* The last call of t was generate_embedding on a text whose vector the
\* call before it had returned.
EmbeddedAgain(t) ==
    /\ CallReturned(t)
    /\ loaders[t].op = "generate_embedding"
    /\ loaders[t].prev.faqs = <<loaders[t].text>>
    /\ loaders[t].prev.embeddings # NoVectors

\* The last call of t was load_or_generate_embeddings on a warm cache, right
\* after another call of load_or_generate_embeddings.
LoadedAgain(t) ==
    /\ CallReturned(t)
    /\ loaders[t].op = "load_or_generate_embeddings"
    /\ loaders[t].warm
    /\ loaders[t].prev # NoReturn
    /\ \A text \in QueryTexts : loaders[t].prev.faqs # <<text>>

\* C15 (as stated): embedding the same text twice with a warm cache returns
\* identical vectors both times and makes no provider call on the second
\* call, for a query text passed to generate_embedding and for the
\* knowledge-base entries served by load_or_generate_embeddings.
C15_Original ==
    \A t \in Threads :
        EmbeddedAgain(t) \/ LoadedAgain(t) =>
            loaders[t].made = 0 /\ loaders[t].ret = loaders[t].prev

\* The second call of generate_embedding on a text came back with the same
\* vector and had called the provider again.
C15_Witness ==
    \E t \in Threads :
        /\ EmbeddedAgain(t)
        /\ loaders[t].ret = loaders[t].prev
        /\ loaders[t].made = 1
        /\ provider_calls = 2

\* The pair is one generation: embeddings[i] is the vector of faqs[i].
Aligned(pair) ==
    pair.embeddings # NoVectors => pair.embeddings = VectorsOf(pair.faqs)

\* C16 (as stated): a reader concurrent with a regeneration or a cold-start
\* write observes the complete old cache or the complete new one: it never
\* takes its data from a partially written snapshot file and never gets an
\* FAQ list paired with an embedding array of another generation.
C16_Original ==
    \A t \in Threads :
        /\ loaders[t].data # PartialFile
        /\ CallReturned(t) /\ loaders[t].op = "load_or_generate_embeddings"
              => Aligned(loaders[t].ret)

\* A call returned an FAQ list with the embedding array of another list.
C16_Witness ==
    \E t \in Threads :
        /\ CallReturned(t)
        /\ loaders[t].op = "load_or_generate_embeddings"
        /\ loaders[t].ret.embeddings # NoVectors
        /\ Len(loaders[t].ret.faqs) # Len(loaders[t].ret.embeddings)

(***************************************************************************)
(* Properties of the answer functions on failures of their stages.         *)
(***************************************************************************)

\* The pgvector query of search_faqs_vector_db raised.
StoreUnreachable ==
    /\ faqCall.fn = "get_faq_answer_optimized"
    /\ Len(faqCall.stages) >= 1
    /\ faqCall.stages[1] = Stage("vector", "failed")

\* search_faqs_vector_db has returned: its query gave rows, or its except
\* clause returned the list of search_faqs_fallback.
VectorDbReturned ==
    /\ faqCall.fn = "get_faq_answer_optimized"
    /\ Len(faqCall.stages) >= 1
    /\ faqCall.stages[1].stage = "vector"
    /\ faqCall.stages[1].outcome = "failed" => Len(faqCall.stages) >= 2

\* The list search_faqs_vector_db returned was [].
VectorDbReturnedEmpty ==
    /\ VectorDbReturned
    /\ IF faqCall.stages[1].outcome = "failed"
       THEN faqCall.stages[2].outcome \in {"empty", "failed"}
       ELSE faqCall.stages[1].outcome = "empty"

\* C17 (as stated): when the vector store is unreachable (the database query
\* raises), the search reports a failure its caller can tell apart from a
\* search without matches; it does not return an empty result list.
C17_Original ==
    StoreUnreachable /\ VectorDbReturned => ~VectorDbReturnedEmpty

\* The query raised, the in-memory search raised too, and the caller was
\* handed [] and went on as after a search without rows.
C17_Witness ==
    /\ StoreUnreachable
    /\ Len(faqCall.stages) >= 2
    /\ faqCall.stages[2] = Stage("in_memory", "failed")
    /\ faqCall.site = "no_results"

\* The provider gave no embedding for the query: the client is not
\* configured, or generate_embedding returned None.
EmbeddingFailed == faqCall.site \in {"no_client", "no_embedding"}

\* The call returned the no-match result.
ReturnedNoMatch ==
    /\ faqCall.pc = "done"
    /\ faqCall.fn # "none"
    /\ faqResult.exc = "none"
    /\ faqResult.confidence = "none"

\* A matcher that needs no embedding was run.
FallbackMatcherTried ==
    \E i \in 1..Len(faqCall.stages) : faqCall.stages[i].stage = "keyword"

\* C18 (as stated): when the embedding provider fails for the query, the
\* answer functions go to a fallback matcher: get_faq_answer_optimized and
\* get_faq_answer return the no-match result only after a fallback matcher
\* was tried.
C18_Original ==
    EmbeddingFailed /\ ReturnedNoMatch => FallbackMatcherTried

\* get_faq_answer_optimized returns no match after a failed embedding only
\* when the keyword matcher was run.
C18_OptimizedFallsBack ==
    faqCall.fn = "get_faq_answer_optimized" /\ EmbeddingFailed /\ ReturnedNoMatch
        => FallbackMatcherTried

\* get_faq_answer returned no match for a table with rows after the
\* provider gave no embedding, and ran no matcher at all.
C18_Witness ==
    /\ faqCall.fn = "get_faq_answer"
    /\ faqCall.site = "no_embedding"
    /\ ReturnedNoMatch
    /\ faqs # <<>>
    /\ faqCall.stages = <<>>

(***************************************************************************)
(* The language-model specification: one call of one of the functions.     *)
(***************************************************************************)

InitLlm ==
    /\ IdleFaq
    /\ IdleDet
    /\ IdleUpload
    /\ composed = NoComposed
    /\ IdleCache
    /\ IdleExt
    /\ \E fn \in LlmFunctions, q \in Questions, configured \in BOOLEAN :
         llm = NewLlmCall(fn, q, configured)

NextLlm ==
    \/ LlmCheckFaq
    \/ LlmCheckClient
    \/ LlmCreateCompletion

SpecLlm == InitLlm /\ [][NextLlm]_vars

(***************************************************************************)
(* Properties of the language-model functions.                             *)
(***************************************************************************)

LlmDone == llm.pc = "done"

\* The kinds of text made without a completion of the model.
DegradedMessages ==
    {"fallback_response", "quota_notice", "invalid_key_notice", "unavailable_notice"}

\* The kinds of text a function can hand back.
MessageStrings == DegradedMessages \cup {"completion", "faq_response"}

\* The call of the model was made and raised, or was not made for want of
\* a client.
LlmFailed ==
    \/ ~llm.outcome.ok
    \/ llm.ret.kind # "faq_response" /\ ~llm.configured

ReturnedHigh == faqCall.pc = "done" /\ faqResult.confidence = "high"

\* The layout fits the limits of sanitize_faq_answer.
FitsChat(t) == Len(t) <= 5 /\ TextLen(t) <= 500

ResponseText(text, carries) == [text |-> text, carries |-> carries]

NoResponseText == ResponseText("", {})

\* The third element of validate_dog_image's tuple for what the detector
\* handed back.
ValidateDogImageMessage(det) ==
    IF det = DetRaised
    THEN ResponseText("Error validating image: ", {"exception"})
    ELSE IF det.is_dog
    THEN ResponseText("Dog detected: ", {"label", "confidence"})
    ELSE ResponseText("Image does not appear to contain a dog. Detected object: ",
                      {"label", "confidence"})

\* The "detail" of the response of a request that is done: dog_message in
\* the 400 response of STEP 1, the exception's text in the HTTPException of
\* the last except clause; the other responses have no such field.
UploadResponseDetail(u, det) ==
    IF u.pc # "done" THEN NoResponseText
    ELSE IF u.status = "validation_failed" /\ u.decision = "rejected_by_detector"
    THEN ValidateDogImageMessage(det)
    ELSE IF u.status = "error"
    THEN ResponseText("Upload failed: ", {"exception"})
    ELSE NoResponseText

(***************************************************************************)
(* Properties of the texts shown to the user.                              *)
(***************************************************************************)

\* C21 (as stated): every failure the end user sees is a message from the
\* fixed templates: no field of the response of combined_upload_and_analyze
\* holds the text of an internal exception or the detector's diagnostic
\* detail (what was detected, with which confidence).
C21_Original ==
    upload.pc = "done" /\ upload.status # "success" =>
        UploadResponseDetail(upload, detResult).carries = {}

\* The detector raised and the 400 response carries the exception's text in
\* its detail field.
C21_Witness ==
    /\ upload.pc = "done"
    /\ upload.status = "validation_failed"
    /\ detResult = DetRaised
    /\ "exception" \in UploadResponseDetail(upload, detResult).carries

(***************************************************************************)
(* The search specification: one call of one of the similarity searches.   *)
(***************************************************************************)

InitSearch ==
    /\ IdleFaq
    /\ IdleDet
    /\ IdleUpload
    /\ composed = NoComposed
    /\ IdleCache
    /\ llm = NoLlmCall
    /\ \E fn \in SearchFunctions, n \in 0..MaxRows, top_k \in 1..TopK,
          min_similarity \in {LOW_CONFIDENCE_THRESHOLD, HIGH_CONFIDENCE_THRESHOLD} :
       \E sims \in [1..n -> SearchScores] :
          search = NewSearch(fn, SearchTable(n), sims, top_k, min_similarity)
    /\ IdleMigration
    /\ IdleSessions

NextSearch ==
    \/ RunSearchFaqs
    \/ RunSearchFaqsFallback
    \/ RunSearchFaqsVectorDb

SpecSearch == InitSearch /\ [][NextSearch]_vars

(***************************************************************************)
(* Properties of the result lists.                                         *)
(***************************************************************************)

SearchDone == search.pc = "done"

\* The list holds only scores >= min_similarity, is no longer than top_k and
\* is in descending order of similarity.
ThresholdCutAndOrder ==
    /\ \A i \in 1..Len(search.results) : search.results[i].sim >= search.min_similarity
    /\ Len(search.results) <= search.top_k
    /\ \A i, j \in 1..Len(search.results) :
          i < j => search.results[i].sim >= search.results[j].sim

\* Entries of equal score are in the order they were stored.
TiesInInsertionOrder ==
    \A i, j \in 1..Len(search.results) :
        i < j /\ search.results[i].sim = search.results[j].sim
            => search.results[i].faq.id < search.results[j].faq.id

\* C22 (as stated): every result list of search_faqs, search_faqs_fallback
\* and search_faqs_vector_db holds only entries with score >= min_similarity,
\* has length <= top_k, and is ordered by descending similarity with equal
\* scores kept in insertion order of the knowledge-base entries.
C22_Original == SearchDone => ThresholdCutAndOrder /\ TiesInInsertionOrder

\* search_faqs_vector_db returned two entries of the same score, the one
\* stored later first, and the list was cut to top_k.
C22_Witness ==
    /\ SearchDone
    /\ search.fn = "search_faqs_vector_db"
    /\ Len(search.results) = search.top_k
    /\ Len(search.results) >= 2
    /\ Len(search.table) > search.top_k
    /\ search.results[1].sim = search.results[2].sim
    /\ search.results[1].faq.id > search.results[2].faq.id

(***************************************************************************)
(* Properties of the keyword matcher's scores.                             *)
(***************************************************************************)

\* The positions of the query's words found in a text.
FoundIn(text) == {i \in 1..Len(QueryWords) : QueryWords[i] \in text}

\* (2 x words found in the question + words found in the answer) /
\* (2 x words), for a row.
OverlapScore(row) ==
    ((2 * Cardinality(FoundIn(row.question)) + Cardinality(FoundIn(row.answer))) * Unit)
        \div (2 * Len(QueryWords))

\* The cap of a row: 0.85 when a word of the query is in its question,
\* 0.75 when it was found through its answer alone.
CapOf(row) == IF FoundIn(row.question) # {} THEN Pct(85) ELSE Pct(75)

LoadsUnforced(t) ==
    /\ loaders[t].op = "load_or_generate_embeddings"
    /\ ~loaders[t].force

C24_FileServed ==
    \E t \in Threads :
        /\ LoadsUnforced(t)
        /\ loaders[t].pc = "store_loaded_embeddings"
        /\ loaders[t].found = Snapshot(FaqFile)
        /\ loaders[t].made = 0

(***************************************************************************)
(* The dialogue specification: composers called one after the other on     *)
(* the stored history, each output stored as an assistant message.         *)
(***************************************************************************)

\* Bound: the assistant messages stored in a dialogue.
MaxTurns == 3

\* create_chat_message(db, pet_id, "ai_bot", text): the composer's output
\* becomes the newest row of the history.
AppendComposed ==
    /\ composed # NoComposed
    /\ Len(chatMessages) < MaxTurns
    /\ chatMessages' = Append(chatMessages, ChatMessage("ai_bot", composed.text))
    /\ composed' = NoComposed
    /\ UNCHANGED <<faqVars, detVars, uploadedImages, upload, cacheVars, llm, extVars>>

InitDialogue ==
    /\ IdleFaq
    /\ IdleDet
    /\ chatMessages = <<>>
    /\ uploadedImages = <<>>
    /\ upload = NoUpload
    /\ composed = NoComposed
    /\ IdleCache
    /\ llm = NoLlmCall
    /\ IdleExt

NextDialogue ==
    \/ ComposeDogDetection
    \/ ComposeBreedDetection
    \/ ComposeHairlessBreedSuspicion
    \/ ComposeLowBreedConfidence
    \/ ComposeNonDog
    \/ AppendComposed

SpecDialogue == InitDialogue /\ [][NextDialogue]_vars

\* The response being composed continues a run: the newest stored message
\* was composed in the same category.
ContinuesRun ==
    /\ ComposedInCategory
    /\ chatMessages # <<>>
    /\ CategoryOfText(chatMessages[Len(chatMessages)].text) = CategoryOfCall(composed)

\* C25 as stated: when every composer output is stored as an assistant
\* message and the next response has the same category, the full variant is
\* emitted only for the first response of the run: a response that continues
\* a run is never the full message.
C25_Original == ContinuesRun => VariantOfText(composed.text) # "full"

\* The full non-dog message was stored and the next non-dog response is the
\* full message again.
C25_Witness ==
    /\ ContinuesRun
    /\ CategoryOfCall(composed) = NON_DOG_MESSAGE
    /\ chatMessages = <<ChatMessage("ai_bot", "non_dog_full")>>
    /\ composed.text = "non_dog_full"

\* The third medium-confidence response in a row is the full message again,
\* after the full message and the shortened reminder.
C25_MediumFullAgain ==
    /\ ContinuesRun
    /\ chatMessages = <<ChatMessage("ai_bot", "medium_full"),
                        ChatMessage("ai_bot", "medium_short")>>
    /\ composed.text = "medium_full"

\* In a run of low-confidence responses of get_low_breed_confidence_message
\* the full message is not repeated.
C25_LowRunDecays ==
    ContinuesRun /\ CategoryOfCall(composed) = LOW_CONFIDENCE_WARNING
        /\ composed.fn = "get_low_breed_confidence_message" =>
            VariantOfText(composed.text) # "full"

(***************************************************************************)
(* The migration specification: runs of migrate_faqs one after the other   *)
(* on a table that starts empty.                                           *)
(***************************************************************************)

InitMigration ==
    /\ IdleFaq
    /\ IdleDet
    /\ IdleUpload
    /\ composed = NoComposed
    /\ IdleCache
    /\ llm = NoLlmCall
    /\ search = NoSearch
    /\ faqs_table = <<>>
    /\ migration = NoMigration
    /\ IdleSessions

NextMigration ==
    \/ StartMigration
    \/ MigrateEntry
    \/ FinishMigration

SpecMigration == InitMigration /\ [][NextMigration]_vars

\* No two rows hold the same question, and a stored question has no outer
\* whitespace: there is at most one row per stripped question text.
OneRowPerQuestion ==
    /\ \A j, k \in 1..Len(faqs_table) :
         j # k => faqs_table[j].question # faqs_table[k].question
    /\ \A k \in 1..Len(faqs_table) :
         LET q == faqs_table[k].question
         IN q # <<>> /\ q[1] # Blank /\ q[Len(q)] # Blank

\* A step of a run without force leaves every stored row as it is, and a
\* step of a run with force whose embedding call failed leaves every stored
\* row's embedding as it is.
StoredRowsKept ==
    /\ Len(faqs_table') >= Len(faqs_table)
    /\ ~migration.force =>
         \A k \in 1..Len(faqs_table) : faqs_table'[k] = faqs_table[k]
    /\ migration.force /\ migration'.embedding \in EmbeddingErrors =>
         \A k \in 1..Len(faqs_table) : faqs_table'[k].embedding = faqs_table[k].embedding

\* C26: after any sequence of migrate_faqs runs, with or without force and
\* over inputs that may repeat a question, the table holds at most one row
\* per stripped question text; a run without force adds no row and changes
\* no row for a stored question, and a run with force whose embedding call
\* fails keeps the row's previous embedding.
C26_UniqueByQuestion == []OneRowPerQuestion /\ [][StoredRowsKept]_vars

\* A forced run updated the answer of a stored row whose embedding call
\* failed for the quota, and the row still has its embedding.
C26_Witness ==
    /\ migration.force
    /\ migration.counted = "updated"
    /\ migration.embedding = "quota"
    /\ Len(faqs_table) = 2
    /\ faqs_table[1] = MigratedFaq(1, <<"a">>, <<"y">>, "e1")

\* The handler decided to reject the image on the breed classifier's result.
RejectionDecided == upload.decision \in {"rejected_hairless", "rejected_low_confidence"}

\* C27 as stated: once the handler has decided to reject an image (hairless
\* suspicion, or breed confidence below 0.50) the request never ends with
\* status "success": whatever saving the rejection's chat messages comes to,
\* an exception of the database write included, the image is not analysed
\* further and no analysed-image record is stored.
C27_Original ==
    RejectionDecided =>
        /\ upload.pc # "analyze"
        /\ upload.status # "success"
        /\ uploadedImages = <<>>

\* A rejection was decided, a chat write of the rejection raised, and the
\* request ended as a success with the image record and the health summary
\* stored.
C27_Witness ==
    /\ RejectionDecided
    /\ UploadDone
    /\ upload.status = "success" /\ upload.http = 200
    /\ uploadedImages # <<>>
    /\ chatMessages # <<>>
    /\ chatMessages[Len(chatMessages)] = ChatMessage("ai_bot", upload.full_summary)

\* A rejection whose chat rows were both written ends as validation_failed
\* with no image record.
C27_RejectionWritten ==
    RejectionDecided /\ UploadDone /\ upload.status = "validation_failed" =>
        uploadedImages = <<>> /\ upload.http = 400

\* The upload passed validation and ended as a success.
UploadSucceeded == UploadDone /\ upload.status = "success"

\* The assistant row the handler wrote for the upload that is done, or none.
AssistantRowWritten ==
    /\ chatMessages # <<>>
    /\ chatMessages[Len(chatMessages)].sender = "ai_bot"

\* C28 as stated: on an upload that passes validation, when
\* analyze_health_with_vision returns a result without raising, the
\* health_analysis of the response is that result and the assistant message
\* saved is the summary generate_health_summary builds from it; the
\* hard-coded fallback analysis is used only when the vision analysis itself
\* failed.
C28_Original ==
    UploadSucceeded =>
        /\ upload.vision # VisionRaised =>
             /\ upload.health_analysis = upload.vision
             /\ upload.full_summary = GenerateHealthSummary(<<upload.vision>>)
             /\ AssistantRowWritten =>
                  chatMessages[Len(chatMessages)].text = GenerateHealthSummary(<<upload.vision>>)
        /\ upload.health_analysis = FallbackHealthAnalysis => upload.vision = VisionRaised

\* The vision analysis returned a reading that needs attention; the response
\* holds the fallback analysis and the assistant row is the breed message.
C28_Witness ==
    /\ UploadSucceeded
    /\ upload.vision = HealthAnalysis("Needs Attention", "eye issues detected")
    /\ upload.health_analysis = FallbackHealthAnalysis
    /\ AssistantRowWritten
    /\ chatMessages[Len(chatMessages)].text = "breed_success"

(***************************************************************************)
(* The stored-history specification: one upload for a pet that has chat    *)
(* rows already.                                                           *)
(***************************************************************************)

\* Bound: the chat rows stored for the pet before the upload.
MaxStored == 100

\* The rows of earlier questions and answers, oldest first.
StoredHistory(n) ==
    [i \in 1..n |-> IF i % 2 = 1 THEN ChatMessage("user", "question")
                    ELSE ChatMessage("ai_bot", "answer")]

\* Numbers of stored rows around the limit of get_chat_messages.
StoredCounts ==
    {0, 2, GetChatMessagesLimit - 2, GetChatMessagesLimit - 1, MaxStored}

InitUploadStored ==
    /\ IdleFaq
    /\ IdleServices
    /\ detCall \in ConversationPredictions \cup {<<Pred(GoldenRetriever, 70)>>}
    /\ detResult = NoDetResult
    /\ \E n \in StoredCounts : chatMessages = StoredHistory(n)
    /\ uploadedImages = <<>>
    /\ upload = NewUpload

SpecUploadStored == InitUploadStored /\ [][NextUpload]_vars

\* Both chat rows of the successful upload were written.
BothRowsWritten ==
    /\ UploadSucceeded
    /\ Len(chatMessages) >= 2
    /\ chatMessages[Len(chatMessages) - 1] = ChatMessage("user", "uploaded_dog_photo")
    /\ chatMessages[Len(chatMessages)] = ChatMessage("ai_bot", upload.full_summary)

\* C29 as stated: the assistant message in the messages field of a
\* successful upload response is the assistant message written for that
\* same upload, for every number of messages already stored for the pet.
C29_Original ==
    BothRowsWritten =>
        \A i \in 1..Len(upload.messages) :
            upload.messages[i].sender = "ai" =>
                upload.messages[i].text = chatMessages[Len(chatMessages)].text

\* 99 rows were stored before the upload: the response holds the answer to
\* an earlier question in place of the message written for the upload.
C29_Witness ==
    /\ BothRowsWritten
    /\ Len(chatMessages) = GetChatMessagesLimit + 1
    /\ upload.messages = <<ResponseMessage("user", "uploaded_dog_photo"),
                           ResponseMessage("ai", "answer")>>

\* With at most 98 rows stored before the upload the response holds the
\* message written for the upload.
C29_WithinLimit ==
    BothRowsWritten /\ Len(chatMessages) <= GetChatMessagesLimit =>
        upload.messages = <<ResponseMessage("user", "uploaded_dog_photo"),
                            ResponseMessage("ai", upload.full_summary)>>

(***************************************************************************)
(* The session-store specification: two threads calling add_chat,          *)
(* add_chat_message and end_session for one session.                       *)
(***************************************************************************)

InitSessionStore ==
    /\ IdleFaq
    /\ IdleDet
    /\ IdleUpload
    /\ composed = NoComposed
    /\ IdleCache
    /\ llm = NoLlmCall
    /\ search = NoSearch
    /\ IdleMigration
    /\ store = NewStore
    /\ callers = [t \in Callers |-> IdleCaller]

NextSessionStore ==
    \E t \in Callers :
        \/ BeginStoreCall(t)
        \/ LockStore(t)
        \/ AddChatCheck(t)
        \/ AddChatLookup(t)
        \/ AddChatAppend(t)
        \/ AddChatMessageUser(t)
        \/ AddChatMessageBot(t)
        \/ LockSnapshot(t)
        \/ SaveSnapshot(t)
        \/ EndSessionPop(t)
        \/ EndSessionDump(t)

SpecSessionStore == InitSessionStore /\ [][NextSessionStore]_vars

\* The entries of a history.
Entries(history) == {history[i] : i \in 1..Len(history)}

\* The steps that read or modify self._sessions or a session's dict.
TouchesSession(pc) ==
    pc \in {"locked", "lookup", "append", "second", "dump"}

\* The session was ended: an end_session returned its dict.
SessionEnded == \E e \in Callers : callers[e].returned # NoHistory

\* A call of add_chat that is over.
AddChatOver(t) == callers[t].op = "add_chat" /\ callers[t].pc = "done"

\* C30 as stated: add_chat is atomic with respect to end_session and the
\* other writers of the session: the existence check and the append happen
\* under one acquisition of the lock, so with a concurrent end_session
\* either the returned final history contains the message, or add_chat
\* raises KeyError("Invalid session_id") and nothing is appended; no session
\* state is read or modified outside the lock.
C30_Original ==
    \A t \in Callers :
        /\ TouchesSession(callers[t].pc) => store.lock = t
        /\ AddChatOver(t) =>
             \/ /\ callers[t].raised = "Invalid session_id"
                /\ Entry("user", callers[t].msg) \notin Entries(store.chat_history)
             \/ /\ callers[t].raised = "none"
                /\ Entry("user", callers[t].msg) \in Entries(store.chat_history)
                /\ \A e \in Callers :
                     callers[e].returned # NoHistory =>
                         Entry("user", callers[t].msg) \in Entries(callers[e].returned)

\* add_chat passed its check, end_session popped the session, wrote the
\* final file and returned, and add_chat then appended and returned: its
\* message is in neither the returned history nor the file.
C30_Witness ==
    \E t, e \in Callers :
        /\ AddChatOver(t) /\ callers[t].raised = "none"
        /\ callers[e].op = "end_session" /\ callers[e].pc = "done"
        /\ callers[e].returned # NoHistory
        /\ Entry("user", callers[t].msg) \notin Entries(callers[e].returned)
        /\ Entry("user", callers[t].msg) \notin Entries(store.file)
        /\ Entry("user", callers[t].msg) \in Entries(store.chat_history)

\* add_chat passed its check and raised the KeyError of the dict lookup.
C30_OtherKeyError ==
    \E t \in Callers : AddChatOver(t) /\ callers[t].raised = "session_id"

\* add_chat appended between the two appends of add_chat_message.
C30_Interleaved ==
    \E i \in 1..Len(store.chat_history) - 2 :
        /\ store.chat_history[i].role = "user"
        /\ store.chat_history[i + 2].role = "assistant"
        /\ store.chat_history[i].text = store.chat_history[i + 2].text
        /\ store.chat_history[i + 1].text # store.chat_history[i].text

\* add_chat_message is atomic: when it is over its two entries are in the
\* history, or it raised KeyError("Invalid session_id") and neither is.
C30_AddChatMessageAtomic ==
    \A t \in Callers :
        callers[t].op = "add_chat_message" /\ callers[t].pc = "done" =>
            IF callers[t].raised = "none"
            THEN {Entry("user", callers[t].msg), Entry("assistant", callers[t].msg)}
                     \subseteq Entries(store.chat_history)
            ELSE /\ callers[t].raised = "Invalid session_id"
                 /\ Entry("user", callers[t].msg) \notin Entries(store.chat_history)
                 /\ Entry("assistant", callers[t].msg) \notin Entries(store.chat_history)

====
